---- MODULE Spec2Model ----
(***************************************************************************)
(* Session engine of the log viewer (backend/bridge.py): the line index,   *)
(* the pipeline worker, the bridge's session table and the supervision of  *)
(* its background workers.                                                 *)
(*                                                                         *)
(* Bytes are modelled as symbols: "\n" is the LF byte, every other symbol  *)
(* stands for one word of a log line ("E" for ERROR, "T" for Timeout ...). *)
(* A fixed-string query is one symbol and matches a line that contains it. *)
(*                                                                         *)
(* Signals follow PyQt: a callable connected to a signal of a QThread      *)
(* object runs in the thread that owns the QThread object (the main        *)
(* thread), so an emission made inside run() is posted to the main         *)
(* thread's event queue; a posted call whose connection was disconnected   *)
(* in the meantime is ignored when it is taken from the queue.             *)
(***************************************************************************)
EXTENDS Integers, Sequences, FiniteSets, TLC

\* ------------------------------------------------------------------ bounds
MaxSize == 5        \* longest file content of the index specification
MaxRequests == 3    \* requests the UI makes in one behaviour

\* --------------------------------------------------------- program constants
MaxThreads == 8     \* min(os.cpu_count() or 4, 8)

LF == "\n"

\* ------------------------------------------------------------ optional values
None == <<>>
Some(x) == <<x>>
IsNone(x) == Len(x) = 0
Val(x) == x[1]

\* ------------------------------------------------------------- small helpers
Min(a, b) == IF a < b THEN a ELSE b

RECURSIVE Concat(_)
Concat(ss) == IF Len(ss) = 0 THEN <<>> ELSE Head(ss) \o Concat(Tail(ss))

StrictlyIncreasing(s) == \A i \in 1..(Len(s) - 1) : s[i] < s[i + 1]

\* ===================================================================== LI
\* mmap.find(b'\n', pos, end): first LF position in [pos, end), or -1.
\* Positions are 0-based byte offsets; content[p + 1] is the byte at p.
MmapFind(content, pos, end) ==
    LET hits == {p \in pos..(Min(end, Len(content)) - 1) : content[p + 1] = LF}
    IN  IF hits = {} THEN -1
        ELSE CHOOSE p \in hits : \A q \in hits : p <= q

\* IndexingWorker._index_chunk with the scan position as a parameter
RECURSIVE IndexChunkFrom(_, _, _, _)
IndexChunkFrom(content, size, pos, end) ==
    LET p == MmapFind(content, pos, end)
    IN  IF p = -1 THEN <<>>
        ELSE IF p + 1 < size
             THEN <<p + 1>> \o IndexChunkFrom(content, size, p + 1, end)
             ELSE <<>>

\* the mutant scans a chunk that stops one byte early
IndexChunkShort(content, size, start, end) ==
    IndexChunkFrom(content, size, start, end - 1)

IndexChunk(content, size, start, end) ==
    IndexChunkFrom(content, size, start, end)

\* chunk boundaries of IndexingWorker.run for chunk i (0-based) of n
ChunkStart(size, n, i) == i * (size \div n)
ChunkEnd(size, n, i) == IF i = n - 1 THEN size ELSE (i + 1) * (size \div n)

\* the table IndexingWorker.run emits from the per-chunk results
IndexAssemble(results, size) ==
    LET total == <<0>> \o Concat(results)
    IN  IF Len(total) > 1 /\ total[Len(total)] >= size
        THEN SubSeq(total, 1, Len(total) - 1)
        ELSE total

\* the whole run, uncancelled
IndexingWorkerRun(content, n) ==
    LET size == Len(content)
    IN  IndexAssemble([i \in 1..n |->
            IndexChunk(content, size, ChunkStart(size, n, i - 1),
                       ChunkEnd(size, n, i - 1))], size)

\* ===================================================================== files
\* The files on disk.  a.log is the five-line example of the scenarios:
\*   ERROR Database Timeout / ERROR Database / INFO Database /
\*   ERROR Timeout / ERROR Other
\* empty.log has size 0 and missing.log does not exist.
Paths == {"a.log", "empty.log", "missing.log"}

\* c.log is the three-line example of the transform scenario:
\*   foo 12 / bar 34 / foo baz
Files == Paths \cup {"c.log"}

PathExists(path) == path # "missing.log"

FileContent(path) ==
    CASE path = "a.log" -> <<"E", "D", "T", LF, "E", "D", LF, "I", "D", LF,
                             "E", "T", LF, "E", "O", LF>>
      [] path = "c.log" -> <<"foo", "12", LF, "bar", "34", LF, "foo", "baz", LF>>
      [] OTHER -> <<>>

\* ===================================================================== SE
\* The lines of a file as the substring engine sees them: LF ends a line, a
\* last line without LF is a line, a final LF opens no further line.
RECURSIVE SplitLines(_)
SplitLines(c) ==
    IF Len(c) = 0 THEN <<>>
    ELSE LET p == MmapFind(c, 0, Len(c))
         IN  IF p = -1 THEN <<c>>
             ELSE <<SubSeq(c, 1, p)>> \o SplitLines(SubSeq(c, p + 2, Len(c)))

Fold(sym) == CASE sym = "e" -> "E" [] sym = "t" -> "T" [] sym = "d" -> "D"
               [] OTHER -> sym

SymEq(a, b, icase) == IF icase THEN Fold(a) = Fold(b) ELSE a = b

\* the words of a literal pattern: a pattern is one word, but for the
\* phrase of the transform scenario
Words(pattern) == IF pattern = "foo N" THEN <<"foo", "N">> ELSE <<pattern>>

\* the alternatives of a regular expression: "E|I" is what "|".join gives
\* for the levels E and I
Alts(pattern) == IF pattern = "E|I" THEN {"E", "I"} ELSE {pattern}

\* a literal pattern occurs in the text; the empty pattern matches all
Contains(text, pattern, icase) ==
    \/ pattern = ""
    \/ LET w == Words(pattern)
       IN  \E i \in 1..(Len(text) - Len(w) + 1) :
              \A k \in 1..Len(w) : SymEq(text[i + k - 1], w[k], icase)

\* a pattern occurs in the text, read as a fixed string or as a regular
\* expression (every symbol of a line is a word of its own, so that -w
\* selects the same lines)
Matches(text, pattern, icase, fixed) ==
    IF fixed THEN Contains(text, pattern, icase)
    ELSE IF pattern = ".*" THEN TRUE
    ELSE \E alt \in Alts(pattern) : Contains(text, alt, icase)

\* "(" stands for a pattern that is no valid regular expression
RegexValid(pattern) == pattern # "("

\* ripgrep's reading of an argument list: -e takes the next argument as the
\* pattern, the flags are switches, the rest are positionals (the first is
\* the pattern when no -e gave one, the others are paths).
RECURSIVE RgParseFrom(_, _, _)
RgParseFrom(args, i, acc) ==
    IF i > Len(args) THEN acc
    ELSE LET a == args[i]
         IN  CASE a = "-e" /\ i < Len(args) ->
                    RgParseFrom(args, i + 2,
                        [acc EXCEPT !.patterns = Append(@, args[i + 1])])
               [] a = "-e" /\ i = Len(args) ->
                    [acc EXCEPT !.bad = TRUE]
               [] a = "-F" -> RgParseFrom(args, i + 1, [acc EXCEPT !.fixed = TRUE])
               [] a = "-i" -> RgParseFrom(args, i + 1, [acc EXCEPT !.icase = TRUE])
               [] a = "-w" -> RgParseFrom(args, i + 1, [acc EXCEPT !.word = TRUE])
               [] a = "-v" -> RgParseFrom(args, i + 1, [acc EXCEPT !.invert = TRUE])
               [] a = "--line-number" ->
                    RgParseFrom(args, i + 1, [acc EXCEPT !.linenum = TRUE])
               [] OTHER ->
                    RgParseFrom(args, i + 1,
                        [acc EXCEPT !.positionals = Append(@, a)])

RgParse(args) ==
    LET acc == RgParseFrom(args, 1,
                   [patterns |-> <<>>, positionals |-> <<>>, fixed |-> FALSE,
                    icase |-> FALSE, word |-> FALSE, invert |-> FALSE,
                    linenum |-> FALSE, bad |-> FALSE])
    IN  IF Len(acc.patterns) > 0
        THEN [acc EXCEPT !.patterns = acc.patterns, !.positionals = acc.positionals]
        ELSE IF Len(acc.positionals) > 0
             THEN [acc EXCEPT !.patterns = <<Head(acc.positionals)>>,
                              !.positionals = Tail(acc.positionals)]
             ELSE [acc EXCEPT !.bad = TRUE]

\* a line is selected when some pattern occurs in it (or none, with -v)
RgSelects(p, text) ==
    LET hit == \E k \in 1..Len(p.patterns) :
                   Matches(text, p.patterns[k], p.icase, p.fixed)
    IN  IF p.invert THEN ~hit ELSE hit

\* output of one engine process reading files: the selected lines of every
\* existing path, as records (num, text) for the "N:content" lines
RECURSIVE NumberedFrom(_, _, _)
NumberedFrom(lines, i, p) ==
    IF i > Len(lines) THEN <<>>
    ELSE (IF RgSelects(p, lines[i]) THEN <<[num |-> i, text |-> lines[i]]>>
          ELSE <<>>) \o NumberedFrom(lines, i + 1, p)

RECURSIVE RgPaths(_, _, _)
RgPaths(p, paths, i) ==
    IF i > Len(paths) THEN <<>>
    ELSE (IF paths[i] \in Files /\ PathExists(paths[i])
          THEN NumberedFrom(SplitLines(FileContent(paths[i])), 1, p)
          ELSE <<>>) \o RgPaths(p, paths, i + 1)

\* a process cannot compile its patterns: it prints nothing and exits with 2
RgBadPattern(p) ==
    p.bad \/ (~p.fixed /\ \E k \in 1..Len(p.patterns) : ~RegexValid(p.patterns[k]))

RgFile(args) ==
    LET p == RgParse(args)
    IN  IF RgBadPattern(p) THEN <<>> ELSE RgPaths(p, p.positionals, 1)

\* exit code of a process reading files: 2 on an error (patterns, a path
\* that cannot be read), else 0 with output and 1 without
RgFileExit(args) ==
    LET p == RgParse(args)
    IN  IF RgBadPattern(p) THEN 2
        ELSE IF \E i \in 1..Len(p.positionals) :
                   ~(p.positionals[i] \in Files /\ PathExists(p.positionals[i]))
             THEN 2
        ELSE IF Len(RgPaths(p, p.positionals, 1)) > 0 THEN 0 ELSE 1

\* output of a piped stage: the pattern ^(?i)[^:]*:.*PATTERN is looked for
\* in each "N:content" line, that is PATTERN in the content; the line goes
\* through unchanged
RgPipe(wrap, stream) ==
    IF wrap.regex /\ ~RegexValid(wrap.pattern) THEN <<>>
    ELSE SelectSeq(stream, LAMBDA r :
             Matches(r.text, wrap.pattern, wrap.icase, ~wrap.regex))

\* exit code of a piped stage (the wrapper is always taken as a regular
\* expression; a fixed query is escaped into a valid one)
RgPipeExit(wrap, stream) ==
    IF wrap.regex /\ ~RegexValid(wrap.pattern) THEN 2
    ELSE IF Len(RgPipe(wrap, stream)) > 0 THEN 0 ELSE 1

\* ===================================================================== layers
\* A layer configuration as sync_all receives it; the instance the registry
\* builds from it carries the same fields plus the stage of its class.
LayerConf(type, id) ==
    [type |-> type, id |-> id, enabled |-> TRUE, query |-> "", regex |-> FALSE,
     caseSensitive |-> FALSE, wholeWord |-> FALSE, invert |-> FALSE,
     levels |-> <<>>, start |-> 1, end |-> 100, find |-> "", replace |-> ""]

FilterConf(id, query) == [LayerConf("FILTER", id) EXCEPT !.query = query]

LevelConf(id, levels) == [LayerConf("LEVEL", id) EXCEPT !.levels = levels]

RangeConf(id, start, end) ==
    [LayerConf("RANGE", id) EXCEPT !.start = start, !.end = end]

ReplaceConf(id, find, replace) ==
    [LayerConf("TRANSFORM", id) EXCEPT !.find = find, !.replace = replace]

HighlightConf(id, query) == [LayerConf("HIGHLIGHT", id) EXCEPT !.query = query]

RowTintConf(id, query) == [LayerConf("ROWTINT", id) EXCEPT !.query = query]

\* the stage attribute of the class registered under a type id: the
\* highlight class names a stage of its own, the classes derived from
\* RenderingLayer (row tint, bookmark) have no stage attribute ("")
StageOf(type) ==
    CASE type \in {"FILTER", "LEVEL"} -> "native"
      [] type \in {"TRANSFORM", "RANGE", "TIME_RANGE"} -> "logic"
      [] type = "HIGHLIGHT" -> "decor"
      [] OTHER -> ""

create_layer_instance(conf) == [conf EXCEPT !.enabled = TRUE]

\* sync_all: instances of the enabled layers, in list order
LayerInstances(layers) ==
    LET enabled == SelectSeq(layers, LAMBDA l : l.enabled)
    IN  [i \in 1..Len(enabled) |-> create_layer_instance(enabled[i])]

\* "|".join(levels)
Join(levels) ==
    CASE Len(levels) = 1 -> levels[1]
      [] levels = <<"E", "I">> -> "E|I"
      [] OTHER -> ""

\* FilterLayer.get_rg_args and LevelLayer.get_rg_args
get_rg_args(l) ==
    IF l.type = "LEVEL"
    THEN (IF Len(l.levels) = 0 THEN <<"-v", ".*">> ELSE <<"-i", "-e", Join(l.levels)>>)
    ELSE IF l.query = "" THEN <<>>
    ELSE LET a1 == IF l.regex THEN <<"-e">> ELSE <<"-F">>
             a2 == IF ~l.caseSensitive THEN Append(a1, "-i") ELSE a1
             a3 == IF l.wholeWord THEN Append(a2, "-w") ELSE a2
             a4 == IF l.invert THEN <<"-v">> \o a3 ELSE a3
             a5 == IF \E i \in 1..Len(a4) : a4[i] = "-e" THEN a4
                   ELSE Append(a4, "-e")
         IN  Append(a5, l.query)

HasArg(args, a) == \E i \in 1..Len(args) : args[i] = a

\* ===================================================================== PW
HasQuery(search) == ~IsNone(search) /\ Val(search).query # ""

\* s_args of PipelineWorker.run
SearchArgs(search) ==
    LET sc == Val(search)
        a1 == IF sc.regex THEN <<"-e">> ELSE <<"-F">>
        a2 == IF ~sc.caseSensitive THEN Append(a1, "-i") ELSE a1
    IN  Append(a2, sc.query)

\* a command of the chain: kind "file" reads the file with line numbers,
\* kind "pipe" reads the previous command with the wrapper pattern
FileCmd(args, path) ==
    [kind |-> "file", args |-> <<"--line-number">> \o args \o <<path>>,
     wrap |-> [pattern |-> "", icase |-> FALSE, regex |-> FALSE]]

PipeCmd(rg_args) ==
    [kind |-> "pipe", args |-> <<>>,
     wrap |-> [pattern |-> rg_args[Len(rg_args)], icase |-> HasArg(rg_args, "-i"),
               regex |-> HasArg(rg_args, "-e")]]

\* the loop over native_layers: the command, if any, of the i-th native layer
NativeCmd(native, i, path) ==
    LET rg_args == get_rg_args(native[i])
    IN  IF Len(rg_args) = 0 THEN <<>>
        ELSE IF i = 1 THEN <<FileCmd(rg_args, path)>>
        ELSE <<PipeCmd(rg_args)>>

\* the search as the final stage
SearchCmd(chain, search, path) ==
    IF Len(chain) = 0 THEN <<FileCmd(SearchArgs(search), path)>>
    ELSE <<PipeCmd(SearchArgs(search))>>

BuildCmdChain(layers, search, path) ==
    LET native == SelectSeq(layers, LAMBDA l : StageOf(l.type) = "native")
        matchAll == <<FileCmd(<<"">>, path)>>
    IN  IF Len(native) = 0 /\ ~HasQuery(search) THEN matchAll
        ELSE LET c1 == Concat([i \in 1..Len(native) |-> NativeCmd(native, i, path)])
                 c2 == IF HasQuery(search) THEN c1 \o SearchCmd(c1, search, path)
                       ELSE c1
             IN  IF Len(c2) = 0 THEN matchAll ELSE c2

\* the processes of the chain, each reading the previous one's output; a
\* first command of kind "pipe" reads the standard input of the backend
\* process, which carries no log lines
RECURSIVE ExecChain(_, _, _)
ExecChain(chain, i, stream) ==
    IF i > Len(chain) THEN stream
    ELSE ExecChain(chain, i + 1,
             IF chain[i].kind = "file" THEN RgFile(chain[i].args)
             ELSE RgPipe(chain[i].wrap, stream))

\* the greatest exit code among the processes of the chain
RECURSIVE ChainExit(_, _, _)
ChainExit(chain, i, stream) ==
    IF i > Len(chain) THEN 0
    ELSE LET code == IF chain[i].kind = "file" THEN RgFileExit(chain[i].args)
                     ELSE RgPipeExit(chain[i].wrap, stream)
             rest == ChainExit(chain, i + 1,
                         IF chain[i].kind = "file" THEN RgFile(chain[i].args)
                         ELSE RgPipe(chain[i].wrap, stream))
         IN  IF code > rest THEN code ELSE rest

\* the mutant records the physical index of a hit instead of its rank
LoopMatchPhysical(physical_idx, v_idx) == physical_idx

\* the entry appended to search_matches for a visible line
LoopMatch(physical_idx, v_idx) == v_idx

\* the symbols a regular expression of a transform layer finds: "\\d+"
\* finds the numbers, any other expression is a symbol and finds itself
Numbers == {"12", "34"}

ReFinds(find, sym) == IF find = "\\d+" THEN sym \in Numbers ELSE sym = find

\* re.sub(find, replace, content)
re_sub(find, replace, content) ==
    SelectSeq([i \in 1..Len(content) |->
                  IF ReFinds(find, content[i]) THEN replace ELSE content[i]],
              LAMBDA sym : sym # "")

\* process_line of a logic layer: ReplaceLayer substitutes, the others
\* return the content
process_line(l, content) ==
    IF l.type = "TRANSFORM" /\ l.find # "" THEN re_sub(l.find, l.replace, content)
    ELSE content

\* filter_line of a logic layer, current_count being the counter of a range
\* layer after its increment; the other layers keep every line
filter_line(l, current_count) ==
    l.type = "RANGE" => (l.start <= current_count /\ current_count <= l.end)

\* RangeLayer.reset
reset(l) == 0

\* the loop over logic_layers for one line: each layer transforms the
\* content and then decides; the first layer that drops the line ends it
RECURSIVE LogicLayers(_, _, _, _)
LogicLayers(logic, k, content, counts) ==
    IF k > Len(logic) THEN [is_visible |-> TRUE, counts |-> counts]
    ELSE LET c == process_line(logic[k], content)
             n == IF logic[k].type = "RANGE" THEN counts[k] + 1 ELSE counts[k]
             next == [counts EXCEPT ![k] = n]
         IN  IF filter_line(logic[k], n) THEN LogicLayers(logic, k + 1, c, next)
             ELSE [is_visible |-> FALSE, counts |-> next]

\* the loop over the output lines of the chain; when a retired worker over
\* the same instances comes to its own reset() while this loop is at line
\* number at (at > 1), the counters are zero again from that line on
RECURSIVE PipelineLoop(_, _, _, _, _, _)
PipelineLoop(stream, i, search, logic, at, acc) ==
    IF i > Len(stream) THEN acc
    ELSE LET physical_idx == stream[i].num - 1
             v_idx == Len(acc.visible_indices)
             counts == IF i = at THEN [k \in 1..Len(logic) |-> reset(logic[k])]
                       ELSE acc.counts
             r == LogicLayers(logic, 1, stream[i].text, counts)
         IN  PipelineLoop(stream, i + 1, search, logic, at,
                 IF ~r.is_visible THEN [acc EXCEPT !.counts = r.counts]
                 ELSE [visible_indices |-> Append(acc.visible_indices, physical_idx),
                       search_matches |->
                           IF HasQuery(search)
                           THEN Append(acc.search_matches, LoopMatch(physical_idx, v_idx))
                           ELSE acc.search_matches,
                       counts |-> r.counts])

\* the layers of a run one of which has no stage attribute: the first
\* statement of run() raises AttributeError
RunRaises(layers) == \E k \in 1..Len(layers) : StageOf(layers[k].type) = ""

\* the arrays PipelineWorker.run emits when the counters of its logic
\* layers are reset at line number at of its loop (1: by itself only)
PipelineRunReset(layers, search, path, at) ==
    LET logic == SelectSeq(layers, LAMBDA l : StageOf(l.type) = "logic")
    IN  PipelineLoop(ExecChain(BuildCmdChain(layers, search, path), 1, <<>>), 1, search,
                     logic, at,
                     [visible_indices |-> <<>>, search_matches |-> <<>>,
                      counts |-> [k \in 1..Len(logic) |-> reset(logic[k])]])

\* the two arrays PipelineWorker.run emits
PipelineRun(layers, search, path) == PipelineRunReset(layers, search, path, 1)

\* where the loop of a run can find its counters reset: at its first line,
\* and at any later line when the run shares its instances with a retired
\* worker that had not ended when the run was started
ResetPoints(w) ==
    {1} \cup (IF w.overlap
              THEN 2..Len(ExecChain(BuildCmdChain(w.layers, w.search, w.path), 1, <<>>))
              ELSE {})

\* ===================================================================== state
FileIds == {"f1"}
Roles == {"indexing", "pipeline", "stats"}

VARIABLES
    sessions,    \* FileBridge._sessions: file_id -> LogSession (or absent)
    workers,     \* every worker thread created so far, by creation order
    queue,       \* calls posted to the main thread by emissions, in order
    zombies,     \* FileBridge._zombie_workers
    events,      \* the signals the bridge has emitted, in order, grouped by
                 \* the request they belong to (events[r] for request r)
    nreq,        \* number of requests served so far that found or made a
                 \* session (a request that returns at once changes nothing)
    reqs,        \* history: what each of these requests was
    ix,          \* an IndexingWorker run on its own (index specification)
    nav,         \* the last call that returned: operation, arguments, value
    rd           \* a thread of the HTTP server inside read_processed_lines

vars == <<sessions, workers, queue, zombies, events, nreq, reqs, ix, nav, rd>>
bridgeVars == <<sessions, workers, queue, zombies, events, nreq, reqs>>

NoWorkers == [r \in Roles |-> 0]

\* LogSession.__init__; registered tells whether _sessions holds it
NewSession(path, gen) ==
    [registered |-> TRUE, gen |-> gen, path |-> path, size |-> 0, mmap |-> FALSE,
     line_offsets |-> <<>>, visible_indices |-> None, search_matches |-> None,
     layers |-> <<>>, layer_instances |-> <<>>, search_config |-> None,
     cache |-> {}, workers |-> NoWorkers, rendering_instances |-> <<>>]

NoSession == [NewSession("", 0) EXCEPT !.registered = FALSE]

\* a call that has returned: the operation, its arguments and its value
Returned(op, fid, arg, ret) ==
    [op |-> op, fid |-> fid, arg |-> arg, ret |-> ret, exc |-> ""]

\* a call that an exception has left
Threw(op, fid, arg, exc) ==
    [op |-> op, fid |-> fid, arg |-> arg, ret |-> None, exc |-> exc]

NoCall == Returned("", "", <<>>, None)

\* the reader thread when it is in no call
RdIdle == [pc |-> "idle", fid |-> "", gen |-> 0, arg |-> <<>>, i |-> 0, end |-> 0,
           v_indices |-> None, offsets |-> <<>>, results |-> <<>>,
           row |-> [index |-> 0, content |-> <<>>], vs |-> <<>>,
           mm |-> "open", session |-> None]

\* (vs records, for each row of results, the virtual index it was produced
\* for and whether it was computed or taken from the cache)

\* the threads of the HTTP server that serve read_processed_lines
Threads == {"t1", "t2"}

NoReaders == [t \in Threads |-> RdIdle]

Event(type, fid, op, req, a, b, p) ==
    [type |-> type, fid |-> fid, op |-> op, req |-> req, a |-> a, b |-> b, p |-> p]

NoArgs == [offsets |-> <<>>, visible_indices |-> <<>>, search_matches |-> <<>>,
           stats |-> <<>>]

\* a worker thread: its role, the file_id its slots were bound to, the
\* request that started it, its position in run(), its _is_running flag,
\* what its signals are connected to, and the inputs it was built with
NewWorker(role, fid, req, sess) ==
    [role |-> role, fid |-> fid, req |-> req, gen |-> sess.gen, pc |-> "running",
     is_running |-> TRUE, raised |-> FALSE, conn |-> "bridge", path |-> sess.path,
     layers |-> sess.layer_instances, search |-> sess.search_config,
     total_lines |-> Len(sess.line_offsets), overlap |-> FALSE]

\* ===================================================================== retire
\* the mutant keeps the bridge's slots connected
RetireConnKeep(w) == w.conn

\* what the worker's signals are connected to after _retire_worker
RetireConn(w) == "zombie"

\* the mutant leaves the _is_running flag set
StopKeep(w) == w.is_running

\* stop()
Stop(w) == FALSE

\* isRunning() is read by _retire_worker only and a worker is retired once:
\* the rest of the life of a retired thread that has nothing more to emit is
\* not observable, so such a thread is taken to its end at once
AfterEmit(w) == IF w.conn = "zombie" THEN "ended" ELSE "exit"

\* FileBridge._retire_worker on the pair (workers, zombies)
RetireWorker(st, w) ==
    IF w = 0 THEN st
    ELSE [workers |-> [st.workers EXCEPT ![w].conn = RetireConn(st.workers[w]),
                                         ![w].is_running = Stop(st.workers[w]),
                                         ![w].pc = IF @ = "exit" THEN "ended" ELSE @],
          zombies |-> IF st.workers[w].pc = "ended" THEN st.zombies \ {w}
                      ELSE st.zombies \cup {w}]

\* the loop of LogSession.close(bridge) over the session's workers
RetireAll(st, sess) ==
    RetireWorker(RetireWorker(RetireWorker(st, sess.workers["indexing"]),
                              sess.workers["pipeline"]), sess.workers["stats"])

\* LogSession.close(bridge): the state of the session object afterwards
Closed(sess) == [sess EXCEPT !.workers = NoWorkers, !.mmap = FALSE]

\* a reader inside read_processed_lines keeps the session object it looked
\* up: when the session of fid is closed the reader still holds the object,
\* and it runs while close() closes the map and then stores None
Orphan(fid, old) ==
    rd' = [t \in Threads |->
              IF /\ rd[t].pc # "idle" /\ rd[t].fid = fid /\ IsNone(rd[t].session)
                 /\ old.registered /\ old.gen = rd[t].gen
              THEN [rd[t] EXCEPT !.session = Some(Closed(old)),
                                 !.mm = IF old.mmap THEN "closing" ELSE @]
              ELSE rd[t]]

\* ===================================================================== SW
\* q_conf of a layer in StatsWorker.run: the query of the layer with its
\* flags, for a level layer the alternation of its levels as a
\* case-sensitive regular expression, None for a layer without either
QConf(l) ==
    IF l.type = "LEVEL" /\ Len(l.levels) > 0
    THEN Some([query |-> Join(l.levels), regex |-> TRUE, caseSensitive |-> TRUE])
    ELSE IF l.query # ""
    THEN Some([query |-> l.query, regex |-> l.regex, caseSensitive |-> l.caseSensitive])
    ELSE None

\* the mutant puts every queryable layer into the chain of the layers after it
RECURSIVE StatsTasksEvery(_, _, _)
StatsTasksEvery(layers, i, active) ==
    IF i > Len(layers) THEN <<>>
    ELSE LET l == layers[i]
         IN  IF l.id = "" \/ IsNone(QConf(l)) THEN StatsTasksEvery(layers, i + 1, active)
             ELSE <<[id |-> l.id, q_conf |-> Val(QConf(l)), filters |-> active]>>
                  \o StatsTasksEvery(layers, i + 1, Append(active, Val(QConf(l))))

\* the tasks StatsWorker.run builds: each queryable layer with the filters
\* of the filter layers before it
RECURSIVE StatsTasks(_, _, _)
StatsTasks(layers, i, active) ==
    IF i > Len(layers) THEN <<>>
    ELSE LET l == layers[i]
             next == IF l.enabled /\ l.type \in {"FILTER", "LEVEL"} /\ ~IsNone(QConf(l))
                     THEN Append(active, Val(QConf(l))) ELSE active
         IN  IF l.id = "" THEN StatsTasks(layers, i + 1, active)
             ELSE IF IsNone(QConf(l)) THEN StatsTasks(layers, i + 1, next)
             ELSE <<[id |-> l.id, q_conf |-> Val(QConf(l)), filters |-> active]>>
                  \o StatsTasks(layers, i + 1, next)

\* a line is selected by the command built from a q_conf
StatsSelects(f, text) == Matches(text, f.query, ~f.caseSensitive, ~f.regex)

\* the chain of the parent filters: each command prints the lines it
\* selects, without line numbers
RECURSIVE StatsFilter(_, _, _)
StatsFilter(lines, filters, i) ==
    IF i > Len(filters) THEN lines
    ELSE StatsFilter(SelectSeq(lines, LAMBDA t : StatsSelects(filters[i], t)),
                     filters, i + 1)

\* the values of l_num in _run_layer_stats: the final command numbers the
\* lines of its input, which is the file when the layer has no parent
\* filter and the output of the chain of the parent filters otherwise
StatsNumbers(path, task) ==
    LET lines == IF PathExists(path) THEN SplitLines(FileContent(path)) ELSE <<>>
        input == StatsFilter(lines, task.filters, 1)
    IN  SelectSeq([j \in 1..Len(input) |-> j - 1],
                  LAMBDA n : StatsSelects(task.q_conf, input[n + 1]))

\* count of StatsWorker._run_layer_stats
StatsCount(path, task) == Len(StatsNumbers(path, task))

Buckets == 20

\* bucket = min(19, int((l_num / self.total_lines) * 20))
StatsBucket(l_num, total_lines) == Min(Buckets - 1, (l_num * Buckets) \div total_lines)

\* distribution before it is normalized: the lines counted per bucket
StatsDistribution(path, task, total_lines) ==
    LET nums == StatsNumbers(path, task)
    IN  [b \in 1..Buckets |->
            Cardinality({k \in 1..Len(nums) : StatsBucket(nums[k], total_lines) = b - 1})]

\* norm_dist: each bucket count over the largest one, as the fraction
\* <<count, largest>>; <<0, 1>> throughout when no line was counted
StatsNormalize(distribution) ==
    LET max_val == CHOOSE v \in {distribution[b] : b \in 1..Buckets} :
                       \A b \in 1..Buckets : distribution[b] <= v
    IN  [b \in 1..Buckets |-> IF max_val > 0 THEN <<distribution[b], max_val>>
                               ELSE <<0, 1>>]

\* the map StatsWorker.run emits, as a sequence of (layer id, count,
\* distribution); total_lines is max(1, len(line_offsets)) when the worker
\* was made
StatsRun(layers, path, total_lines) ==
    LET tasks == StatsTasks(layers, 1, <<>>)
        total == IF total_lines > 1 THEN total_lines ELSE 1
    IN  [k \in 1..Len(tasks) |->
            [id |-> tasks[k].id, count |-> StatsCount(path, tasks[k]),
             distribution |-> StatsNormalize(StatsDistribution(path, tasks[k], total))]]

\* ===================================================================== B
PipelineError(e) == e.type = "operation_error" /\ e.op = "pipeline"

Terminal(e) == e.type = "pipeline_finished" \/ PipelineError(e)

\* signals emitted while request number nreq + 1 is served
EmitNew(evs) == events' = Append(events, evs)

\* the record of request number nreq + 1: the operation, the session's
\* layer instances and search configuration once it has set them, and the
\* pipeline worker it found in the session's worker table (0: none) and
\* whether that worker's request was still without its terminal signal
Request(op, fid, sess) ==
    [op |-> op, fid |-> fid, layers |-> sess.layer_instances,
     search |-> sess.search_config, prev |-> sess.workers["pipeline"],
     busy |-> /\ sess.workers["pipeline"] # 0
              /\ \A i \in 1..Len(events[workers[sess.workers["pipeline"]].req]) :
                    ~Terminal(events[workers[sess.workers["pipeline"]].req][i])]

Record(op, fid, sess) == reqs' = Append(reqs, Request(op, fid, sess))

\* signals emitted by a slot of a worker that request req started
EmitFor(req, evs) == events' = [events EXCEPT ![req] = @ \o evs]

\* the stats half of _start_pipeline
StatsWanted(sess) ==
    \E i \in 1..Len(sess.layers) :
        sess.layers[i].enabled /\ sess.layers[i].type \in {"HIGHLIGHT", "FILTER", "LEVEL"}

\* the mutant starts the new workers without retiring the old ones
StartRetireNone(st, sess) == st

\* _start_pipeline: retire the existing pipeline and stats workers
StartRetire(st, sess) ==
    RetireWorker(RetireWorker(st, sess.workers["pipeline"]), sess.workers["stats"])

\* the mutant announces no operation
StartEventsSilent(fast, fid, req, n) ==
    <<Event("pipeline_finished", fid, "", req, n, 0, <<>>),
      Event("operation_status_changed", fid, "ready", req, 100, 0, <<>>)>>

\* the signals of the pipeline half of _start_pipeline
StartEvents(fast, fid, req, n) ==
    IF fast
    THEN <<Event("pipeline_finished", fid, "", req, n, 0, <<>>),
           Event("operation_status_changed", fid, "ready", req, 100, 0, <<>>)>>
    ELSE <<Event("operation_started", fid, "pipeline", req, 0, 0, <<>>)>>

\* search_ripgrep hands the session's layer instances to the new worker: a
\* pipeline worker started since the sync_all that made them, and not ended
\* yet, works on the same objects (those with a counter are the range layers)
Overlaps(op, fid, sess) ==
    /\ op = "search_ripgrep"
    /\ \E k \in 1..Len(sess.layer_instances) : sess.layer_instances[k].type = "RANGE"
    /\ \E k \in 1..Len(workers) :
          /\ workers[k].role = "pipeline"
          /\ workers[k].fid = fid
          /\ workers[k].gen = sess.gen
          /\ workers[k].pc = "running"
          /\ \A q \in (workers[k].req + 1)..nreq : reqs[q].op = "search_ripgrep"

\* FileBridge._start_pipeline for the registered session of fid, whose
\* layers and search_config the caller has just set (sess)
StartPipeline(op, fid, sess, req) ==
    LET st0 == StartRetire([workers |-> workers, zombies |-> zombies], sess)
        s0 == [sess EXCEPT !.workers["pipeline"] = 0, !.workers["stats"] = 0]
        fast == Len(sess.layer_instances) = 0 /\ ~HasQuery(sess.search_config)
        wp == Len(st0.workers) + 1
        ws1 == IF fast THEN st0.workers
               ELSE Append(st0.workers,
                           [NewWorker("pipeline", fid, req, sess) EXCEPT
                               !.overlap = Overlaps(op, fid, sess)])
        s1 == IF fast
              THEN [s0 EXCEPT !.visible_indices = None, !.search_matches = None,
                              !.cache = {}]
              ELSE [s0 EXCEPT !.workers["pipeline"] = wp]
        ev1 == StartEvents(fast, fid, req, Len(sess.line_offsets))
        wsn == Len(ws1) + 1
        ws2 == IF StatsWanted(sess)
               THEN Append(ws1, NewWorker("stats", fid, req, sess)) ELSE ws1
        s2 == IF StatsWanted(sess) THEN [s1 EXCEPT !.workers["stats"] = wsn] ELSE s1
        ev2 == IF StatsWanted(sess) THEN <<>>
               ELSE <<Event("stats_finished", fid, "", req, 0, 0, <<>>)>>
    IN  /\ workers' = ws2
        /\ Record(op, fid, sess)
        /\ zombies' = st0.zombies
        /\ sessions' = [sessions EXCEPT ![fid] = s2]
        /\ EmitNew(ev1 \o ev2)

\* FileBridge.open_file(file_id, file_path)
OpenFile(fid, path) ==
    LET old == sessions[fid]
        st0 == IF old.registered
               THEN RetireAll([workers |-> workers, zombies |-> zombies], old)
               ELSE [workers |-> workers, zombies |-> zombies]
        size == Len(FileContent(path))
        fresh == [NewSession(path, nreq + 1) EXCEPT !.size = size]
        wi == Len(st0.workers) + 1
    IN  /\ nreq < MaxRequests
        /\ IF ~PathExists(path) /\ ~old.registered
           THEN UNCHANGED <<sessions, workers, zombies, events, nreq, reqs>>
           ELSE IF ~PathExists(path)
           THEN /\ sessions' = [sessions EXCEPT ![fid] = Closed(old)]
                /\ Record("open_file", fid, old)
                /\ workers' = st0.workers
                /\ zombies' = st0.zombies
                /\ nreq' = nreq + 1
                /\ EmitNew(<<>>)
           ELSE IF size = 0
           THEN /\ sessions' = [sessions EXCEPT ![fid] = fresh]
                /\ Record("open_file", fid, old)
                /\ workers' = st0.workers
                /\ zombies' = st0.zombies
                /\ nreq' = nreq + 1
                /\ EmitNew(<<Event("file_loaded", fid, "", nreq + 1, 0, 0, <<>>)>>)
           ELSE /\ sessions' = [sessions EXCEPT ![fid] =
                                    [fresh EXCEPT !.mmap = TRUE, !.workers["indexing"] = wi]]
                /\ workers' = Append(st0.workers, NewWorker("indexing", fid, nreq + 1, fresh))
                /\ Record("open_file", fid, old)
                /\ zombies' = st0.zombies
                /\ nreq' = nreq + 1
                /\ EmitNew(<<Event("operation_started", fid, "indexing", nreq + 1, 0, 0, <<>>)>>)
        /\ nav' = Returned("open_file", fid, <<path>>, PathExists(path))
        /\ Orphan(fid, old)
        /\ UNCHANGED <<queue, ix>>

\* FileBridge.close_file(file_id)
CloseFile(fid) ==
    LET old == sessions[fid]
        st0 == RetireAll([workers |-> workers, zombies |-> zombies], old)
    IN  /\ nreq < MaxRequests
        /\ IF old.registered
           THEN /\ workers' = st0.workers
                /\ zombies' = st0.zombies
                /\ sessions' = [sessions EXCEPT ![fid] = NoSession]
                /\ nreq' = nreq + 1
                /\ Record("close_file", fid, old)
                /\ EmitNew(<<>>)
           ELSE UNCHANGED <<workers, zombies, sessions, events, nreq, reqs>>
        /\ nav' = Returned("close_file", fid, <<>>, None)
        /\ Orphan(fid, old)
        /\ UNCHANGED <<queue, ix>>

\* FileBridge.sync_all(file_id, layers_json, search_json)
SyncAll(fid, layers, search) ==
    /\ nreq < MaxRequests
    /\ IF sessions[fid].registered
       THEN nreq' = nreq + 1 /\
            StartPipeline("sync_all", fid, [sessions[fid] EXCEPT
                                   !.layers = layers,
                                   !.search_config = search,
                                   !.layer_instances = LayerInstances(layers)],
                          nreq + 1)
       ELSE UNCHANGED <<workers, zombies, sessions, events, nreq, reqs>>
    /\ nav' = Returned("sync_all", fid, <<>>, sessions[fid].registered)
    /\ UNCHANGED <<queue, ix, rd>>

\* FileBridge.search_ripgrep(file_id, query, regex, case_sensitive)
SearchRipgrep(fid, query) ==
    /\ nreq < MaxRequests
    /\ IF sessions[fid].registered
       THEN nreq' = nreq + 1 /\
            StartPipeline("search_ripgrep", fid, [sessions[fid] EXCEPT !.search_config =
                                   IF query = "" THEN None
                                   ELSE Some([query |-> query, regex |-> FALSE,
                                              caseSensitive |-> FALSE])],
                          nreq + 1)
       ELSE UNCHANGED <<workers, zombies, sessions, events, nreq, reqs>>
    /\ nav' = Returned("search_ripgrep", fid, <<query>>, sessions[fid].registered)
    /\ UNCHANGED <<queue, ix, rd>>

\* ===================================================================== workers
\* the arguments a worker's finished signal carries
FinishedArgs(w, n) ==
    CASE w.role = "indexing" ->
            [NoArgs EXCEPT !.offsets = IndexingWorkerRun(FileContent(w.path), n)]
      [] w.role = "pipeline" ->
            LET r == PipelineRunReset(w.layers, w.search, w.path, n)
            IN  [NoArgs EXCEPT !.visible_indices = r.visible_indices,
                               !.search_matches = r.search_matches]
      [] OTHER -> [NoArgs EXCEPT !.stats = StatsRun(w.layers, w.path, w.total_lines)]

\* which slots a signal of the worker reaches at the moment of emission
SlotsOf(w, sig) ==
    IF w.conn = "zombie" THEN <<"cleanup">>
    ELSE IF w.role = "stats" /\ sig = "error" THEN <<>>
    ELSE <<"bridge">>

\* sig.emit(...): one call posted to the main thread per connected slot
Post(w, sig) ==
    LET slots == SlotsOf(workers[w], sig)
    IN  \E n \in (CASE workers[w].role = "indexing" -> 1..MaxThreads
                     [] workers[w].role = "pipeline" -> ResetPoints(workers[w])
                     [] OTHER -> {1}) :
          queue' = queue \o
              [k \in 1..Len(slots) |->
                  [w |-> w, sig |-> sig, slot |-> slots[k],
                   args |-> IF sig = "finished" /\ slots[k] = "bridge"
                            THEN FinishedArgs(workers[w], n) ELSE NoArgs]]

\* run() of a worker that was not stopped comes to its end: the test of
\* _is_running succeeds and finished is emitted
WorkerFinish(w) ==
    /\ w \in 1..Len(workers)
    /\ workers[w].pc = "running"
    /\ workers[w].is_running
    /\ workers[w].role = "pipeline" => ~RunRaises(workers[w].layers)
    /\ Post(w, "finished")
    /\ workers' = [workers EXCEPT ![w].pc = AfterEmit(workers[w])]
    /\ UNCHANGED <<sessions, zombies, events, nreq, reqs, ix, nav, rd>>

\* run() of a stopped worker comes to its end.  Either the test of
\* _is_running fails and nothing is emitted, or the test had succeeded
\* just before stop() cleared the flag and finished is emitted after the
\* retirement, when only the cleanup slot is connected.
WorkerFinishStopped(w) ==
    /\ w \in 1..Len(workers)
    /\ workers[w].pc = "running"
    /\ ~workers[w].is_running
    /\ \/ queue' = queue
       \/ Post(w, IF workers[w].role = "pipeline" /\ RunRaises(workers[w].layers)
                  THEN "error" ELSE "finished")
    /\ workers' = [workers EXCEPT ![w].pc = AfterEmit(workers[w])]
    /\ UNCHANGED <<sessions, zombies, events, nreq, reqs, ix, nav, rd>>

\* run() raises: a pipeline worker when the engine cannot be spawned (the
\* error is emitted only while _is_running), an indexing worker when its
\* mmap was closed under a scan (the error is emitted unconditionally)
WorkerRaise(w) ==
    /\ w \in 1..Len(workers)
    /\ workers[w].pc = "running"
    /\ \/ /\ workers[w].role = "pipeline"
          /\ workers[w].is_running
          /\ Post(w, "error")
       \/ /\ workers[w].role = "indexing"
          /\ workers[w].conn = "zombie"
          /\ Post(w, "error")
    /\ workers' = [workers EXCEPT ![w].pc = AfterEmit(workers[w]), ![w].raised = TRUE]
    /\ UNCHANGED <<sessions, zombies, events, nreq, reqs, ix, nav, rd>>

\* run() returns and the thread ends: isRunning() is false from now on
WorkerExit(w) ==
    /\ w \in 1..Len(workers)
    /\ workers[w].pc = "exit"
    /\ workers' = [workers EXCEPT ![w].pc = "ended"]
    /\ UNCHANGED <<sessions, queue, zombies, events, nreq, reqs, ix, nav, rd>>

\* ===================================================================== slots
\* the mutant installs the table in every registered session
OnIndexingFinishedShared(fid, req, offsets) ==
    IF ~sessions[fid].registered THEN UNCHANGED <<sessions, events>>
    ELSE /\ sessions' = [f \in DOMAIN sessions |->
                            IF sessions[f].registered
                            THEN [sessions[f] EXCEPT !.line_offsets = offsets,
                                                     !.visible_indices = None,
                                                     !.search_matches = None,
                                                     !.cache = {}]
                            ELSE sessions[f]]
         /\ EmitFor(req, <<Event("file_loaded", fid, "", req, Len(offsets), 0, <<>>)>>)

\* the mutant reports the length of the table it replaces
OnIndexingFinishedOldCount(fid, req, offsets) ==
    IF ~sessions[fid].registered THEN UNCHANGED <<sessions, events>>
    ELSE /\ sessions' = [sessions EXCEPT ![fid].line_offsets = offsets,
                                         ![fid].visible_indices = None,
                                         ![fid].search_matches = None,
                                         ![fid].cache = {}]
         /\ EmitFor(req, <<Event("file_loaded", fid, "", req,
                                 Len(sessions[fid].line_offsets), 0, <<>>)>>)

\* FileBridge._on_indexing_finished(file_id, offsets)
OnIndexingFinished(fid, req, offsets) ==
    IF ~sessions[fid].registered THEN UNCHANGED <<sessions, events>>
    ELSE /\ sessions' = [sessions EXCEPT ![fid].line_offsets = offsets,
                                         ![fid].visible_indices = None,
                                         ![fid].search_matches = None,
                                         ![fid].cache = {}]
         /\ EmitFor(req, <<Event("file_loaded", fid, "", req, Len(offsets), 0, <<>>)>>)

\* FileBridge._on_pipeline_finished(file_id, visible_indices, search_matches)
OnPipelineFinished(fid, req, visible_indices, search_matches) ==
    IF ~sessions[fid].registered THEN UNCHANGED <<sessions, events>>
    ELSE /\ sessions' = [sessions EXCEPT ![fid].visible_indices = Some(visible_indices),
                                         ![fid].search_matches = Some(search_matches),
                                         ![fid].cache = {}]
         /\ EmitFor(req, <<Event("pipeline_finished", fid, "", req,
                         Len(visible_indices), Len(search_matches), <<>>),
                   Event("operation_status_changed", fid, "ready", req, 100, 0, <<>>)>>)

\* the slot connected in open_file / _start_pipeline for (role, signal)
BridgeSlot(w, sig, args) ==
    CASE w.role = "indexing" /\ sig = "finished" ->
            OnIndexingFinished(w.fid, w.req, args.offsets)
      [] w.role = "pipeline" /\ sig = "finished" ->
            OnPipelineFinished(w.fid, w.req, args.visible_indices, args.search_matches)
      [] w.role = "stats" /\ sig = "finished" ->
            /\ EmitFor(w.req, <<Event("stats_finished", w.fid, "", w.req, 0, 0, args.stats)>>)
            /\ UNCHANGED sessions
      [] OTHER ->
            /\ EmitFor(w.req, <<Event("operation_error", w.fid, w.role, w.req, 0, 0, <<>>)>>)
            /\ UNCHANGED sessions

\* the main thread takes the next posted call from its queue; a call to a
\* slot that was disconnected after the emission is ignored
Deliver ==
    /\ Len(queue) > 0
    /\ queue' = Tail(queue)
    /\ LET c == Head(queue)
       IN  IF c.slot = "cleanup"
           THEN /\ zombies' = zombies \ {c.w}
                /\ UNCHANGED <<sessions, events>>
           ELSE /\ zombies' = zombies
                /\ IF workers[c.w].conn = "bridge"
                   THEN BridgeSlot(workers[c.w], c.sig, c.args)
                   ELSE UNCHANGED <<sessions, events>>
    /\ UNCHANGED <<workers, nreq, reqs, ix, nav, rd>>

\* ===================================================================== inputs
SearchOf(query) == Some([query |-> query, regex |-> FALSE, caseSensitive |-> FALSE])

LayerLists == {<<>>, <<FilterConf("l1", "E")>>}

Queries == {"", "T"}

SearchConfs == {None, SearchOf("T")}

\* a search whose query is no valid regular expression, and none
RegexOf(query) == Some([query |-> query, regex |-> TRUE, caseSensitive |-> TRUE])

SearchConfsRegex == {None, RegexOf("(")}

\* ===================================================================== Spec
IxIdle == [content |-> <<>>, n |-> 1, pc |-> "idle", results |-> <<>>, offsets |-> <<>>]

BridgeInit ==
    /\ sessions = [f \in FileIds |-> NoSession]
    /\ workers = <<>>
    /\ queue = <<>>
    /\ zombies = {}
    /\ events = <<>>
    /\ nreq = 0
    /\ reqs = <<>>

Init == BridgeInit /\ ix = IxIdle /\ nav = NoCall /\ rd = NoReaders

Next ==
    \/ \E fid \in FileIds, path \in Paths : OpenFile(fid, path)
    \/ \E fid \in FileIds : CloseFile(fid)
    \/ \E fid \in FileIds, layers \in LayerLists, search \in SearchConfs :
          SyncAll(fid, layers, search)
    \/ \E fid \in FileIds, query \in Queries : SearchRipgrep(fid, query)
    \/ \E w \in 1..Len(workers) : WorkerFinish(w)
    \/ \E w \in 1..Len(workers) : WorkerFinishStopped(w)
    \/ \E w \in 1..Len(workers) : WorkerRaise(w)
    \/ \E w \in 1..Len(workers) : WorkerExit(w)
    \/ Deliver

Spec == Init /\ [][Next]_vars

\* ===================================================================== regex
\* The bridge with searches given as regular expressions.
NextRegex ==
    \/ \E fid \in FileIds, path \in Paths : OpenFile(fid, path)
    \/ \E fid \in FileIds : CloseFile(fid)
    \/ \E fid \in FileIds, layers \in LayerLists, search \in SearchConfsRegex :
          SyncAll(fid, layers, search)
    \/ \E w \in 1..Len(workers) : WorkerFinish(w)
    \/ \E w \in 1..Len(workers) : WorkerFinishStopped(w)
    \/ \E w \in 1..Len(workers) : WorkerRaise(w)
    \/ \E w \in 1..Len(workers) : WorkerExit(w)
    \/ Deliver

SpecRegex == Init /\ [][NextRegex]_vars

\* ===================================================================== layers
\* The bridge with a loaded file and one sync_all over lists of up to two
\* layers of every kind, followed by searches over the same instances.
LoadedSession(path) ==
    [NewSession(path, 1) EXCEPT
        !.size = Len(FileContent(path)),
        !.mmap = TRUE,
        !.line_offsets = IndexingWorkerRun(FileContent(path), 1)]

LayerAtoms ==
    {FilterConf("fE", "E"), FilterConf("fT", "T"), FilterConf("f0", ""),
     [FilterConf("fV", "T") EXCEPT !.invert = TRUE],
     [FilterConf("fD", "D") EXCEPT !.enabled = FALSE],
     FilterConf("fN", "foo N"),
     LevelConf("lI", <<"I">>), LevelConf("lEI", <<"E", "I">>),
     RangeConf("r23", 2, 3), ReplaceConf("tN", "\\d+", "N"),
     HighlightConf("hE", "E"), RowTintConf("rE", "E")}

LayerListsAll ==
    {<<>>} \cup {<<a>> : a \in LayerAtoms}
           \cup {p \in LayerAtoms \X LayerAtoms : p[1].id # p[2].id}

LayersInit ==
    /\ sessions \in [FileIds -> {LoadedSession("a.log"), LoadedSession("c.log")}]
    /\ workers = <<>>
    /\ queue = <<>>
    /\ zombies = {}
    /\ events = <<>>
    /\ nreq = 0
    /\ reqs = <<>>
    /\ ix = IxIdle
    /\ nav = NoCall
    /\ rd = NoReaders

NextLayers ==
    \/ \E fid \in FileIds, layers \in LayerListsAll :
          nreq = 0 /\ SyncAll(fid, layers, None)
    \/ \E fid \in FileIds, query \in Queries :
          /\ nreq = 1
          /\ \E k \in 1..Len(sessions[fid].layers) : sessions[fid].layers[k].type = "RANGE"
          /\ SearchRipgrep(fid, query)
    \/ \E w \in 1..Len(workers) : WorkerFinish(w)
    \/ \E w \in 1..Len(workers) : WorkerFinishStopped(w)
    \/ \E w \in 1..Len(workers) : WorkerRaise(w)
    \/ \E w \in 1..Len(workers) : WorkerExit(w)
    \/ Deliver

SpecLayers == LayersInit /\ [][NextLayers]_vars

\* ===================================================================== faults
\* run() of an indexing worker that is still connected raises (the thread
\* pool cannot start a thread, memory runs out): the except clause emits
\* error, whatever _is_running is
IndexingFail(w) ==
    /\ w \in 1..Len(workers)
    /\ workers[w].pc = "running"
    /\ workers[w].role = "indexing"
    /\ workers[w].conn = "bridge"
    /\ Post(w, "error")
    /\ workers' = [workers EXCEPT ![w].pc = AfterEmit(workers[w]), ![w].raised = TRUE]
    /\ UNCHANGED <<sessions, zombies, events, nreq, reqs, ix, nav, rd>>

\* The bridge with opens and closes and indexing workers that can fail.
NextFault ==
    \/ \E fid \in FileIds, path \in Paths : OpenFile(fid, path)
    \/ \E fid \in FileIds : CloseFile(fid)
    \/ \E w \in 1..Len(workers) : IndexingFail(w)
    \/ \E w \in 1..Len(workers) : WorkerFinish(w)
    \/ \E w \in 1..Len(workers) : WorkerFinishStopped(w)
    \/ \E w \in 1..Len(workers) : WorkerRaise(w)
    \/ \E w \in 1..Len(workers) : WorkerExit(w)
    \/ Deliver

SpecFault == Init /\ [][NextFault]_vars

\* ===================================================================== args
\* FilterLayer.get_rg_args applied to filter layers of every combination of
\* the four flags and a few queries, one of them starting with '-'.
ArgQueries == {"", "E", "T", "D", "-x", "foo N", "(", ".*"}

ArgConfs ==
    {[FilterConf("f", q) EXCEPT !.regex = r, !.caseSensitive = c,
                                !.wholeWord = w, !.invert = v] :
        q \in ArgQueries, r \in BOOLEAN, c \in BOOLEAN, w \in BOOLEAN, v \in BOOLEAN}

GetRgArgs(l) ==
    /\ nav' = Returned("get_rg_args", "", l, get_rg_args(l))
    /\ UNCHANGED <<bridgeVars, ix, rd>>

NextArgs == \E l \in ArgConfs : GetRgArgs(l)

SpecArgs == Init /\ [][NextArgs]_vars

\* ===================================================================== lookups
\* Python list helpers: sorted(), bisect.bisect_left / bisect_right on a
\* sorted list, a[k] for k >= 0 and a[-1]
RECURSIVE sorted(_)
sorted(S) ==
    IF S = {} THEN <<>>
    ELSE LET m == CHOOSE x \in S : \A y \in S : x <= y
         IN  <<m>> \o sorted(S \ {m})

bisect_left(a, x) == Cardinality({i \in 1..Len(a) : a[i] < x})

bisect_right(a, x) == Cardinality({i \in 1..Len(a) : a[i] <= x})

At(a, k) == a[k + 1]

Last(a) == a[Len(a)]

\* BookmarkLayer.__init__ given the old list format: every line without comment
FromList(raw) == [k \in {raw[i] : i \in 1..Len(raw)} |-> ""]

\* a BookmarkLayer instance: bookmarks is the dict {line_index: comment}
BookmarkLayer(id, bookmarks) == [type |-> "BOOKMARK", id |-> id, bookmarks |-> bookmarks]

\* for layer in session.rendering_instances: the first BookmarkLayer (0: none)
FindBookmarkLayer(sess) ==
    LET S == {i \in 1..Len(sess.rendering_instances) :
                 sess.rendering_instances[i].type = "BOOKMARK"}
    IN  IF S = {} THEN 0 ELSE CHOOSE i \in S : \A j \in S : i <= j

\* the mutant leaves out the test rank < 0: a negative rank counts from the end
get_search_match_indexFromEnd(sess, rank) ==
    IF ~sess.registered THEN -1
    ELSE IF IsNone(sess.search_matches) THEN -1
    ELSE IF Len(Val(sess.search_matches)) = 0 \/ rank >= Len(Val(sess.search_matches))
    THEN -1
    ELSE IF rank < 0 THEN Last(Val(sess.search_matches))
    ELSE At(Val(sess.search_matches), rank)

\* FileBridge.get_search_match_index(file_id, rank), sess = _sessions[file_id]
get_search_match_index(sess, rank) ==
    IF ~sess.registered THEN -1
    ELSE IF IsNone(sess.search_matches) \/ rank < 0
            \/ rank >= Len(Val(sess.search_matches))
    THEN -1
    ELSE At(Val(sess.search_matches), rank)

\* the mutant does not step over a match equal to the current row
get_nearest_search_rankEqual(sess, current_index, direction) ==
    IF ~sess.registered THEN -1
    ELSE IF IsNone(sess.search_matches) THEN -1
    ELSE IF Len(Val(sess.search_matches)) = 0 THEN -1
    ELSE LET matches == Val(sess.search_matches)
             rank == bisect_right(matches, current_index)
         IN  IF direction = "next"
             THEN IF rank < Len(matches) THEN rank ELSE 0
             ELSE IF rank - 1 >= 0 THEN rank - 1 ELSE Len(matches) - 1

\* SearchMixin.get_nearest_search_rank(file_id, current_index, direction)
get_nearest_search_rank(sess, current_index, direction) ==
    IF ~sess.registered THEN -1
    ELSE IF IsNone(sess.search_matches) THEN -1
    ELSE IF Len(Val(sess.search_matches)) = 0 THEN -1
    ELSE LET matches == Val(sess.search_matches)
             rank == bisect_right(matches, current_index)
             target_rank == rank - 1
         IN  IF direction = "next"
             THEN IF rank < Len(matches) THEN rank ELSE 0
             ELSE IF target_rank >= 0
                  THEN LET t == IF At(matches, target_rank) = current_index
                                THEN target_rank - 1 ELSE target_rank
                       IN  IF t >= 0 THEN t ELSE Len(matches) - 1
                  ELSE Len(matches) - 1

\* FileBridge.get_search_matches_range(file_id, start_rank, count)
get_search_matches_range(sess, start_rank, count) ==
    IF ~sess.registered THEN <<>>
    ELSE IF IsNone(sess.search_matches) THEN <<>>
    ELSE LET start == IF start_rank > 0 THEN start_rank ELSE 0
             end == Min(Len(Val(sess.search_matches)), start + count)
         IN  IF start >= end THEN <<>>
             ELSE SubSeq(Val(sess.search_matches), start + 1, end)

\* the mutant maps a filtered-out line to the visible line that follows it
physical_to_visual_indexAfter(sess, physical_index) ==
    IF ~sess.registered THEN physical_index
    ELSE IF IsNone(sess.visible_indices) THEN physical_index
    ELSE LET visible == Val(sess.visible_indices)
             visual_idx == bisect_left(visible, physical_index)
         IN  IF visual_idx < Len(visible) THEN visual_idx
             ELSE IF visual_idx > 0 THEN visual_idx - 1 ELSE 0

\* SearchMixin.physical_to_visual_index(file_id, physical_index)
physical_to_visual_index(sess, physical_index) ==
    IF ~sess.registered THEN physical_index
    ELSE IF IsNone(sess.visible_indices) THEN physical_index
    ELSE LET visible == Val(sess.visible_indices)
             visual_idx == bisect_left(visible, physical_index)
         IN  IF visual_idx < Len(visible) /\ At(visible, visual_idx) = physical_index
             THEN visual_idx
             ELSE IF visual_idx > 0 THEN visual_idx - 1 ELSE 0

\* SearchMixin.get_bookmarks(file_id)
get_bookmarks(sess) ==
    IF ~sess.registered THEN <<>>
    ELSE IF FindBookmarkLayer(sess) = 0 THEN <<>>
    ELSE sorted(DOMAIN sess.rendering_instances[FindBookmarkLayer(sess)].bookmarks)

\* the mutant does not wrap around: past the last bookmark it returns -1
get_nearest_bookmark_indexNoWrap(sess, current_index, direction) ==
    IF ~sess.registered THEN -1
    ELSE LET bookmarks == get_bookmarks(sess)
             filtered == ~IsNone(sess.visible_indices)
             visible == IF filtered THEN Val(sess.visible_indices) ELSE <<>>
             current_physical ==
                 IF ~filtered THEN current_index
                 ELSE IF current_index >= 0 /\ current_index < Len(visible)
                 THEN At(visible, current_index)
                 ELSE IF current_index >= Len(visible) THEN Last(visible) + 1
                 ELSE 0
             nxt == bisect_right(bookmarks, current_physical)
             prv == bisect_left(bookmarks, current_physical) - 1
         IN  IF Len(bookmarks) = 0 THEN -1
             ELSE IF filtered /\ Len(visible) = 0 THEN -1
             ELSE IF direction = "next"
             THEN IF nxt < Len(bookmarks)
                  THEN physical_to_visual_index(sess, At(bookmarks, nxt)) ELSE -1
             ELSE IF prv >= 0
                  THEN physical_to_visual_index(sess, At(bookmarks, prv)) ELSE -1

\* SearchMixin.get_nearest_bookmark_index(file_id, current_index, direction)
get_nearest_bookmark_index(sess, current_index, direction) ==
    IF ~sess.registered THEN -1
    ELSE LET bookmarks == get_bookmarks(sess)
             filtered == ~IsNone(sess.visible_indices)
             visible == IF filtered THEN Val(sess.visible_indices) ELSE <<>>
             current_physical ==
                 IF ~filtered THEN current_index
                 ELSE IF current_index >= 0 /\ current_index < Len(visible)
                 THEN At(visible, current_index)
                 ELSE IF current_index >= Len(visible) THEN Last(visible) + 1
                 ELSE 0
             nxt == bisect_right(bookmarks, current_physical)
             prv == bisect_left(bookmarks, current_physical) - 1
             target_physical ==
                 IF direction = "next"
                 THEN IF nxt < Len(bookmarks) THEN At(bookmarks, nxt) ELSE At(bookmarks, 0)
                 ELSE IF prv >= 0 THEN At(bookmarks, prv) ELSE Last(bookmarks)
         IN  IF Len(bookmarks) = 0 THEN -1
             ELSE IF filtered /\ Len(visible) = 0 THEN -1
             ELSE IF target_physical = -1 THEN -1
             ELSE physical_to_visual_index(sess, target_physical)

\* a call that only reads: it returns and leaves the bridge as it was
Answer(op, fid, arg, ret) ==
    /\ nav' = Returned(op, fid, arg, ret)
    /\ UNCHANGED <<bridgeVars, ix, rd>>

GetSearchMatchIndex(fid, rank) ==
    Answer("get_search_match_index", fid, <<rank>>,
           get_search_match_index(sessions[fid], rank))

GetNearestSearchRank(fid, current_index, direction) ==
    Answer("get_nearest_search_rank", fid, <<current_index, direction>>,
           get_nearest_search_rank(sessions[fid], current_index, direction))

GetSearchMatchesRange(fid, start_rank, count) ==
    Answer("get_search_matches_range", fid, <<start_rank, count>>,
           get_search_matches_range(sessions[fid], start_rank, count))

PhysicalToVisualIndex(fid, physical_index) ==
    Answer("physical_to_visual_index", fid, <<physical_index>>,
           physical_to_visual_index(sessions[fid], physical_index))

GetBookmarks(fid) ==
    Answer("get_bookmarks", fid, <<>>, get_bookmarks(sessions[fid]))

GetNearestBookmarkIndex(fid, current_index, direction) ==
    Answer("get_nearest_bookmark_index", fid, <<current_index, direction>>,
           get_nearest_bookmark_index(sessions[fid], current_index, direction))

\* ===================================================================== bookmarks
\* BookmarkLayer.toggle(line_index) on the dict
toggle(bookmarks, line_index) ==
    IF line_index \in DOMAIN bookmarks
    THEN [k \in DOMAIN bookmarks \ {line_index} |-> bookmarks[k]]
    ELSE [k \in DOMAIN bookmarks \cup {line_index} |->
             IF k = line_index THEN "" ELSE bookmarks[k]]

\* BookmarkLayer.set_comment(line_index, comment)
set_comment(bookmarks, line_index, comment) ==
    IF line_index \in DOMAIN bookmarks
    THEN [bookmarks EXCEPT ![line_index] = comment]
    ELSE bookmarks

\* the entry toggle_bookmark appends to session.layers for the layer it creates
BookmarkConf(id) == [type |-> "BOOKMARK", id |-> id, enabled |-> TRUE, bookmarks |-> <<>>]

SystemBookmarkId == "system-bookmark"

\* the counts a bookmark request passes to pipelineFinished.emit
indices_len(sess) ==
    IF ~IsNone(sess.visible_indices) THEN Len(Val(sess.visible_indices))
    ELSE Len(sess.line_offsets)

matches_len(sess) ==
    IF ~IsNone(sess.search_matches) THEN Len(Val(sess.search_matches)) ELSE 0

\* the mutant does not look the file_id up: it makes a session for it
ToggleBookmarkCreates(fid, line_index) ==
    /\ sessions' = [sessions EXCEPT ![fid] =
            [NewSession("", nreq + 1) EXCEPT
                !.rendering_instances = <<BookmarkLayer(SystemBookmarkId,
                                                        FromList(<<line_index>>))>>]]
    /\ nav' = Returned("toggle_bookmark", fid, <<line_index>>, <<line_index>>)
    /\ UNCHANGED <<workers, queue, zombies, events, nreq, reqs, ix, rd>>

\* SearchMixin.toggle_bookmark(file_id, line_index): the layer is looked up
\* or created, then bookmarks.remove / bookmarks.add is called on the dict
\* of the layer, which has neither: AttributeError leaves the call before
\* the cache is cleared and before pipelineFinished is emitted
ToggleBookmark(fid, line_index) ==
    LET sess == sessions[fid]
    IN  IF ~sess.registered
        THEN Answer("toggle_bookmark", fid, <<line_index>>, <<>>)
        ELSE /\ sessions' = [sessions EXCEPT ![fid] =
                    IF FindBookmarkLayer(sess) # 0 THEN sess
                    ELSE [sess EXCEPT
                            !.rendering_instances =
                                Append(@, BookmarkLayer(SystemBookmarkId, FromList(<<>>))),
                            !.layers = Append(@, BookmarkConf(SystemBookmarkId))]]
             /\ nav' = Threw("toggle_bookmark", fid, <<line_index>>, "AttributeError")
             /\ UNCHANGED <<workers, queue, zombies, events, nreq, reqs, ix, rd>>

\* SearchMixin.clear_bookmarks(file_id)
ClearBookmarks(fid) ==
    LET sess == sessions[fid]
        k == FindBookmarkLayer(sess)
    IN  IF ~sess.registered
        THEN Answer("clear_bookmarks", fid, <<>>, <<>>)
        ELSE /\ nreq < MaxRequests
             /\ sessions' = [sessions EXCEPT ![fid] =
                    [(IF k = 0 THEN sess
                      ELSE [sess EXCEPT !.rendering_instances[k].bookmarks = FromList(<<>>)])
                     EXCEPT !.cache = {}]]
             /\ nreq' = nreq + 1
             /\ Record("clear_bookmarks", fid, sess)
             /\ EmitNew(<<Event("pipeline_finished", fid, "", nreq + 1,
                                indices_len(sess), matches_len(sess), <<>>)>>)
             /\ nav' = Returned("clear_bookmarks", fid, <<>>, <<>>)
             /\ UNCHANGED <<workers, queue, zombies, ix, rd>>

\* BookmarkLayer.toggle(line_index) called on the session's bookmark layer
LayerToggle(fid, line_index) ==
    LET sess == sessions[fid]
        k == FindBookmarkLayer(sess)
    IN  /\ sess.registered
        /\ k # 0
        /\ sessions' = [sessions EXCEPT ![fid].rendering_instances[k].bookmarks =
                            toggle(@, line_index)]
        /\ nav' = Returned("toggle", fid, <<line_index>>, None)
        /\ UNCHANGED <<workers, queue, zombies, events, nreq, reqs, ix, rd>>

\* BookmarkLayer.set_comment(line_index, comment) called on that layer
LayerSetComment(fid, line_index, comment) ==
    LET sess == sessions[fid]
        k == FindBookmarkLayer(sess)
    IN  /\ sess.registered
        /\ k # 0
        /\ sessions' = [sessions EXCEPT ![fid].rendering_instances[k].bookmarks =
                            set_comment(@, line_index, comment)]
        /\ nav' = Returned("set_comment", fid, <<line_index, comment>>, None)
        /\ UNCHANGED <<workers, queue, zombies, events, nreq, reqs, ix, rd>>

\* ===================================================================== reader
\* FileBridge.read_processed_lines(file_id, start_line, count) on a thread of
\* the HTTP server, one step per access to the session; the requests of the
\* other threads run between the steps.

\* the LogSession object a reader holds
Held(r) == IF IsNone(r.session) THEN sessions[r.fid] ELSE Val(r.session)

\* what a reader can find in session.mmap: the open map; None; or, when
\* close() runs on the session while the reader is inside the call, the
\* closed map that close() has not yet replaced by None
MmapViews(r) ==
    IF Held(r).mmap THEN {"open"}
    ELSE IF r.mm = "closing" THEN {"closed", "none"}
    ELSE {"none"}

\* the call of thread t ends with a value
ReadEnds(t, ret) ==
    /\ nav' = Returned("read_processed_lines", rd[t].fid, rd[t].arg, ret)
    /\ rd' = [rd EXCEPT ![t] = RdIdle]

\* the call of thread t ends with an exception that no except clause of it
\* catches
ReadRaises(t, exc) ==
    /\ nav' = Threw("read_processed_lines", rd[t].fid, rd[t].arg, exc)
    /\ rd' = [rd EXCEPT ![t] = RdIdle]

\* if file_id not in self._sessions: return "[]"; session = self._sessions[file_id]
ReadStart(t, fid, start_line, count) ==
    /\ rd[t].pc = "idle"
    /\ IF ~sessions[fid].registered
       THEN /\ nav' = Returned("read_processed_lines", fid, <<start_line, count>>, <<>>)
            /\ rd' = rd
       ELSE /\ rd' = [rd EXCEPT ![t] = [RdIdle EXCEPT !.pc = "check", !.fid = fid,
                                           !.gen = sessions[fid].gen,
                                           !.arg = <<start_line, count>>]]
            /\ nav' = nav
    /\ UNCHANGED <<bridgeVars, ix>>

\* if session.mmap is None: return "[]"
ReadCheck(t) ==
    /\ rd[t].pc = "check"
    /\ \E view \in MmapViews(rd[t]) :
          IF view = "none" THEN ReadEnds(t, <<>>)
          ELSE rd' = [rd EXCEPT ![t].pc = "probe"] /\ nav' = nav
    /\ UNCHANGED <<bridgeVars, ix>>

\* end_idx with the bound taken one row too far
ReadEndInclusive(start_line, count, total) == Min(start_line + count + 1, total)

\* end_idx = min(start_line + count, total)
ReadEnd(start_line, count, total) == Min(start_line + count, total)

\* _ = len(session.mmap); the test of start_line; the snapshot of
\* visible_indices and line_offsets; end_idx
ReadProbe(t) ==
    LET r == rd[t]
        s == Held(r)
        total == IF ~IsNone(s.visible_indices) THEN Len(Val(s.visible_indices))
                 ELSE Len(s.line_offsets)
    IN  /\ r.pc = "probe"
        /\ \E view \in MmapViews(r) :
              CASE view = "none" -> ReadRaises(t, "TypeError")
                [] view = "closed" -> ReadEnds(t, <<>>)
                [] OTHER ->
                      IF r.arg[1] < 0 THEN ReadEnds(t, <<>>)
                      ELSE /\ rd' = [rd EXCEPT ![t] =
                                       [r EXCEPT !.pc = "row",
                                          !.i = r.arg[1],
                                          !.end = ReadEnd(r.arg[1], r.arg[2], total),
                                          !.v_indices = s.visible_indices,
                                          !.offsets = s.line_offsets]]
                           /\ nav' = nav
        /\ UNCHANGED <<bridgeVars, ix>>

\* bytes.rstrip('\r\n') of a chunk
RECURSIVE rstrip(_)
rstrip(chunk) ==
    IF Len(chunk) > 0 /\ chunk[Len(chunk)] = LF
    THEN rstrip(SubSeq(chunk, 1, Len(chunk) - 1)) ELSE chunk

\* the row of the cache for virtual index i, if any
Cached(cache, i) == {c \in cache : c.i = i}

\* the loops over session.layer_instances of a freshly computed row read
\* l.stage and call layer.highlight_line(content) on every instance: an
\* instance of a class without that attribute or method raises AttributeError
ReadLayersRaise(instances) ==
    \E k \in 1..Len(instances) :
        StageOf(instances[k].type) = "" \/ instances[k].type # "HIGHLIGHT"

\* the size at which rows are no longer stored: `len(session.cache) < 5000`
\* of the code, brought down to the few rows of the model's files
CacheLimit == 2

\* one turn of the loop over range(start_line, end_idx), up to the test
\* `len(session.cache) < 5000`
ReadRow(t) ==
    LET r == rd[t]
        s == Held(r)
        i == r.i
        hit == Cached(s.cache, i)
        real_idx == IF ~IsNone(r.v_indices) THEN At(Val(r.v_indices), i) ELSE i
        start_off == At(r.offsets, real_idx)
        end_off == IF real_idx + 1 < Len(r.offsets) THEN At(r.offsets, real_idx + 1)
                   ELSE s.size
        line_data == [index |-> real_idx,
                      content |-> rstrip(SubSeq(FileContent(s.path), start_off + 1, end_off))]
    IN  /\ r.pc = "row"
        /\ r.i < r.end
        /\ IF hit # {}
           THEN /\ rd' = [rd EXCEPT ![t].i = i + 1,
                             ![t].results = Append(@, (CHOOSE c \in hit : TRUE).row),
                             ![t].vs = Append(@, [v |-> i, fresh |-> FALSE])]
                /\ nav' = nav
           ELSE IF real_idx >= Len(r.offsets)
           THEN /\ rd' = [rd EXCEPT ![t].i = i + 1]
                /\ nav' = nav
           ELSE \E view \in MmapViews(r) :
                  CASE view = "none" -> ReadRaises(t, "TypeError")
                    [] view = "closed" ->
                          /\ rd' = [rd EXCEPT ![t].i = i + 1]
                          /\ nav' = nav
                    [] view = "open" /\ ReadLayersRaise(s.layer_instances) ->
                          ReadRaises(t, "AttributeError")
                    [] OTHER ->
                          /\ rd' = IF Cardinality(s.cache) < CacheLimit
                                   THEN [rd EXCEPT ![t].pc = "store", ![t].row = line_data]
                                   ELSE [rd EXCEPT ![t].i = i + 1,
                                                   ![t].results = Append(@, line_data),
                                                   ![t].vs = Append(@, [v |-> i, fresh |-> TRUE])]
                          /\ nav' = nav
        /\ UNCHANGED <<bridgeVars, ix>>

\* session.cache[i] = line_data; results.append(line_data): the row goes
\* into the cache of the session object the reader holds
ReadStore(t) ==
    LET r == rd[t]
        Put(cache) == {c \in cache : c.i # r.i} \cup {[i |-> r.i, row |-> r.row]}
        done == [r EXCEPT !.pc = "row", !.i = r.i + 1, !.row = RdIdle.row,
                          !.results = Append(@, r.row),
                          !.vs = Append(@, [v |-> r.i, fresh |-> TRUE])]
    IN  /\ r.pc = "store"
        /\ IF IsNone(r.session)
           THEN /\ sessions' = [sessions EXCEPT ![r.fid].cache = Put(@)]
                /\ rd' = [rd EXCEPT ![t] = done]
           ELSE /\ sessions' = sessions
                /\ rd' = [rd EXCEPT ![t] =
                            [done EXCEPT !.session =
                                Some([Val(r.session) EXCEPT !.cache = Put(@)])]]
        /\ UNCHANGED <<workers, queue, zombies, events, nreq, reqs, ix, nav>>

\* return json.dumps(results)
ReadReturn(t) ==
    /\ rd[t].pc = "row"
    /\ rd[t].i >= rd[t].end
    /\ ReadEnds(t, rd[t].results)
    /\ UNCHANGED <<bridgeVars, ix>>

\* ===================================================================== SpecRead
\* The bridge with a reader: files are opened and closed and their workers
\* run while a thread is inside read_processed_lines.
MaxCount == 2       \* largest count of a read_processed_lines call

ReadStarts == {-1, 0, 1}

NextRead ==
    \/ \E fid \in FileIds, path \in Paths : OpenFile(fid, path)
    \/ \E fid \in FileIds : CloseFile(fid)
    \/ \E w \in 1..Len(workers) : WorkerFinish(w)
    \/ \E w \in 1..Len(workers) : WorkerFinishStopped(w)
    \/ \E w \in 1..Len(workers) : WorkerRaise(w)
    \/ \E w \in 1..Len(workers) : WorkerExit(w)
    \/ Deliver
    \/ \E fid \in FileIds, start_line \in ReadStarts, count \in 1..MaxCount :
          ReadStart("t1", fid, start_line, count)
    \/ \E t \in Threads : ReadCheck(t)
    \/ \E t \in Threads : ReadProbe(t)
    \/ \E t \in Threads : ReadRow(t)
    \/ \E t \in Threads : ReadStore(t)
    \/ \E t \in Threads : ReadReturn(t)

SpecRead == Init /\ [][NextRead]_vars

\* ===================================================================== SpecCache
\* The bridge with a loaded file and searches that replace the session's
\* tables, and a thread inside read_processed_lines meanwhile.
CacheQueries == {"", "foo"}

CacheRequests == 2     \* requests that start a pipeline while the reader runs

CacheInit ==
    /\ sessions = [f \in FileIds |-> LoadedSession("c.log")]
    /\ workers = <<>>
    /\ queue = <<>>
    /\ zombies = {}
    /\ events = <<>>
    /\ nreq = 0
    /\ reqs = <<>>
    /\ ix = IxIdle
    /\ nav = NoCall
    /\ rd = NoReaders

NextCache ==
    \/ \E fid \in FileIds, query \in CacheQueries :
          nreq < CacheRequests /\ SearchRipgrep(fid, query)
    \/ \E w \in 1..Len(workers) : WorkerFinish(w)
    \/ \E w \in 1..Len(workers) : WorkerFinishStopped(w)
    \/ \E w \in 1..Len(workers) : WorkerRaise(w)
    \/ \E w \in 1..Len(workers) : WorkerExit(w)
    \/ Deliver
    \/ \E fid \in FileIds, start_line \in ReadStarts, count \in 1..MaxCount :
          ReadStart("t1", fid, start_line, count)
    \/ \E t \in Threads : ReadCheck(t)
    \/ \E t \in Threads : ReadProbe(t)
    \/ \E t \in Threads : ReadRow(t)
    \/ \E t \in Threads : ReadStore(t)
    \/ \E t \in Threads : ReadReturn(t)

SpecCache == CacheInit /\ [][NextCache]_vars

\* ===================================================================== SpecLimit
\* Two threads of the server inside read_processed_lines on one loaded
\* session.
NextLimit ==
    \/ \E t \in Threads, fid \in FileIds, start_line \in ReadStarts, count \in 1..MaxCount :
          ReadStart(t, fid, start_line, count)
    \/ \E t \in Threads : ReadCheck(t)
    \/ \E t \in Threads : ReadProbe(t)
    \/ \E t \in Threads : ReadRow(t)
    \/ \E t \in Threads : ReadStore(t)
    \/ \E t \in Threads : ReadReturn(t)

SpecLimit == CacheInit /\ [][NextLimit]_vars

\* ===================================================================== SpecSwap
\* _on_pipeline_finished taken statement by statement: it runs on the main
\* thread while the requests run on the threads of the HTTP server, so a
\* request can be served between two of its assignments.

\* session.visible_indices = visible_indices (the call stays at the head of
\* the queue, marked as being inside the slot)
InstallVisible ==
    /\ Len(queue) > 0
    /\ LET c == Head(queue)
           w == workers[c.w]
       IN  /\ c.slot = "bridge" /\ c.sig = "finished"
           /\ w.role = "pipeline" /\ w.conn = "bridge"
           /\ sessions[w.fid].registered
           /\ sessions' = [sessions EXCEPT
                             ![w.fid].visible_indices = Some(c.args.visible_indices)]
           /\ queue' = <<[c EXCEPT !.slot = "installing"]>> \o Tail(queue)
    /\ UNCHANGED <<workers, zombies, events, nreq, reqs, ix, nav, rd>>

\* session.search_matches = search_matches; session.cache.clear(); the two
\* emissions
InstallMatches ==
    /\ Len(queue) > 0
    /\ LET c == Head(queue)
           w == workers[c.w]
       IN  /\ c.slot = "installing"
           /\ sessions' = [sessions EXCEPT
                             ![w.fid].search_matches = Some(c.args.search_matches),
                             ![w.fid].cache = {}]
           /\ EmitFor(w.req, <<Event("pipeline_finished", w.fid, "", w.req,
                                     Len(c.args.visible_indices),
                                     Len(c.args.search_matches), <<>>),
                               Event("operation_status_changed", w.fid, "ready",
                                     w.req, 100, 0, <<>>)>>)
           /\ queue' = Tail(queue)
    /\ UNCHANGED <<workers, zombies, nreq, reqs, ix, nav, rd>>

\* the other calls of the queue
DeliverOther ==
    /\ Len(queue) > 0
    /\ Head(queue).slot # "installing"
    /\ ~ENABLED InstallVisible
    /\ Deliver

SwapQueries == {"foo", "bar"}

NextSwap ==
    \/ \E fid \in FileIds, query \in SwapQueries :
          nreq < CacheRequests /\ SearchRipgrep(fid, query)
    \/ \E w \in 1..Len(workers) : WorkerFinish(w)
    \/ \E w \in 1..Len(workers) : WorkerFinishStopped(w)
    \/ \E w \in 1..Len(workers) : WorkerRaise(w)
    \/ \E w \in 1..Len(workers) : WorkerExit(w)
    \/ InstallVisible
    \/ InstallMatches
    \/ DeliverOther
    \/ \E fid \in FileIds, rank \in 0..1 : GetSearchMatchIndex(fid, rank)
    \/ \E fid \in FileIds, c \in 0..1, d \in {"next", "prev"} :
          GetNearestSearchRank(fid, c, d)
    \/ \E fid \in FileIds, p \in 0..2 : PhysicalToVisualIndex(fid, p)

SpecSwap == CacheInit /\ [][NextSwap]_vars

\* ===================================================================== SpecNav
\* The lookups over every small session: Init draws the tables of a session
\* of a.log, and the bookmark layer it may have.  The tables are both None
\* (no pipeline has finished) or a view and matches that are rows of the
\* view (_on_pipeline_finished stores both).  sync_all, search_ripgrep,
\* read_processed_lines and the bookmark requests are made here for a
\* file_id without session only; what they do to a session is the subject
\* of Spec, SpecRead and SpecBookmark.
MaxLine == 2        \* largest line number in a drawn table

Lines == 0..MaxLine

NavRows == -1..(MaxLine + 2)

Directions == {"next", "prev"}

Tables == {sorted(S) : S \in SUBSET Lines}

\* the strictly increasing tables of rows of a view
RanksOf(visible) == {sorted(S) : S \in SUBSET (0..(Len(visible) - 1))}

Comments == {"", "c"}

NavSession(visible_indices, search_matches, rendering_instances, cache) ==
    [NewSession("a.log", 1) EXCEPT
        !.size = Len(FileContent("a.log")),
        !.mmap = TRUE,
        !.line_offsets = IndexingWorkerRun(FileContent("a.log"), 1),
        !.visible_indices = visible_indices,
        !.search_matches = search_matches,
        !.rendering_instances = rendering_instances,
        !.cache = cache]

BookmarkLayers ==
    {<<>>} \cup {<<BookmarkLayer(SystemBookmarkId, [k \in S |-> ""])>> : S \in SUBSET Lines}

NavSessions ==
    {NavSession(None, None, r, {}) : r \in BookmarkLayers}
    \cup UNION {{NavSession(Some(v), Some(m), r, {}) : m \in RanksOf(v), r \in BookmarkLayers} :
                   v \in Tables}

DrawnInit(Drawn) ==
    /\ sessions \in [FileIds -> Drawn \cup {NoSession}]
    /\ workers = <<>>
    /\ queue = <<>>
    /\ zombies = {}
    /\ events = <<>>
    /\ nreq = 0
    /\ reqs = <<>>
    /\ ix = IxIdle
    /\ nav = NoCall
    /\ rd = NoReaders

NavInit == DrawnInit(NavSessions)

Absent(fid) == ~sessions[fid].registered

NextNav ==
    \/ \E fid \in FileIds, rank \in NavRows : GetSearchMatchIndex(fid, rank)
    \/ \E fid \in FileIds, c \in NavRows, d \in Directions : GetNearestSearchRank(fid, c, d)
    \/ \E fid \in FileIds, start_rank \in ReadStarts, count \in 1..MaxCount :
          GetSearchMatchesRange(fid, start_rank, count)
    \/ \E fid \in FileIds, p \in NavRows : PhysicalToVisualIndex(fid, p)
    \/ \E fid \in FileIds : GetBookmarks(fid)
    \/ \E fid \in FileIds, c \in NavRows, d \in Directions :
          GetNearestBookmarkIndex(fid, c, d)
    \/ \E fid \in FileIds : CloseFile(fid)
    \/ \E fid \in FileIds, layers \in LayerLists, search \in SearchConfs :
          Absent(fid) /\ SyncAll(fid, layers, search)
    \/ \E fid \in FileIds, query \in Queries : Absent(fid) /\ SearchRipgrep(fid, query)
    \/ \E fid \in FileIds, line \in Lines : Absent(fid) /\ ToggleBookmark(fid, line)
    \/ \E fid \in FileIds : Absent(fid) /\ ClearBookmarks(fid)
    \/ \E fid \in FileIds, start_line \in ReadStarts, count \in 1..MaxCount :
          Absent(fid) /\ ReadStart("t1", fid, start_line, count)

SpecNav == NavInit /\ [][NextNav]_vars

\* ===================================================================== SpecBookmark
\* The bookmark operations on a session of a.log, drawn with or without a
\* filtered view, search matches, cached rows and a commented bookmark.
BookmarkSessions ==
    {NavSession(t[1], t[2], r, c) :
        t \in {<<None, None>>, <<Some(<<>>), Some(<<>>)>>,
                <<Some(<<0, 2>>), Some(<<>>)>>, <<Some(<<0, 2>>), Some(<<1>>)>>},
        r \in {<<>>, <<BookmarkLayer(SystemBookmarkId, [k \in {1} |-> "c"])>>},
        c \in {{}, {[i |-> 0, row |-> [index |-> 0, content |-> <<"E", "D", "T">>]]}}}

BookmarkInit == DrawnInit(BookmarkSessions)

NextBookmark ==
    \/ \E fid \in FileIds, line \in Lines : ToggleBookmark(fid, line)
    \/ \E fid \in FileIds : ClearBookmarks(fid)
    \/ \E fid \in FileIds, line \in Lines : LayerToggle(fid, line)
    \/ \E fid \in FileIds, line \in Lines, comment \in Comments :
          LayerSetComment(fid, line, comment)
    \/ \E fid \in FileIds : GetBookmarks(fid)
    \/ \E fid \in FileIds : CloseFile(fid)

SpecBookmark == BookmarkInit /\ [][NextBookmark]_vars

\* ===================================================================== index
\* An IndexingWorker run over every small file content and thread count:
\* the chunks are scanned by the pool in any order, then run() assembles.
Contents == UNION {[1..k -> {LF, "a"}] : k \in 1..MaxSize}

IxInit ==
    /\ BridgeInit
    /\ ix \in {[content |-> c, n |-> n, pc |-> "scan",
                results |-> [i \in 1..n |-> None], offsets |-> <<>>] :
               c \in Contents, n \in 1..MaxThreads}
    /\ nav = NoCall
    /\ rd = NoReaders

\* one future of the pool: _index_chunk(start, end) of chunk i
IxChunk(i) ==
    /\ ix.pc = "scan"
    /\ i \in 1..ix.n
    /\ IsNone(ix.results[i])
    /\ LET size == Len(ix.content)
       IN  ix' = [ix EXCEPT !.results[i] =
                     Some(IndexChunk(ix.content, size, ChunkStart(size, ix.n, i - 1),
                                     ChunkEnd(size, ix.n, i - 1)))]
    /\ UNCHANGED <<bridgeVars, nav, rd>>

\* run() collects the results in chunk order and emits the table
IxFinish ==
    /\ ix.pc = "scan"
    /\ \A i \in 1..ix.n : ~IsNone(ix.results[i])
    /\ ix' = [ix EXCEPT !.pc = "done",
                        !.offsets = IndexAssemble([i \in 1..ix.n |-> Val(ix.results[i])],
                                                  Len(ix.content))]
    /\ UNCHANGED <<bridgeVars, nav, rd>>

IxNext == (\E i \in 1..MaxThreads : IxChunk(i)) \/ IxFinish

SpecIndex == IxInit /\ [][IxNext]_vars

\* ===================================================================== claims
\* ---- reference definitions used by the properties
RECURSIVE SortedSeq(_)
SortedSeq(S) ==
    IF S = {} THEN <<>>
    ELSE LET m == CHOOSE x \in S : \A y \in S : x <= y
         IN  <<m>> \o SortedSeq(S \ {m})

\* one sequential scan: 0 and p + 1 for every LF position p with p + 1 < size
SequentialScan(content) ==
    SortedSeq({0} \cup {p + 1 : p \in {q \in 0..(Len(content) - 1) :
                                        content[q + 1] = LF /\ q + 1 < Len(content)}})

\* the bytes [a, b) of a content, without the LF that ends them
SliceLine(content, a, b) ==
    LET raw == SubSeq(content, a + 1, b)
    IN  IF Len(raw) > 0 /\ raw[Len(raw)] = LF
        THEN SubSeq(raw, 1, Len(raw) - 1) ELSE raw

LineCount(path) == Len(SplitLines(FileContent(path)))

\* physical indices of the lines of a file that satisfy a predicate
Physical(path, Keep(_)) ==
    LET lines == SplitLines(FileContent(path))
    IN  SortedSeq({i - 1 : i \in {j \in 1..Len(lines) : Keep(lines[j])}})

QueryHits(search, text) ==
    Contains(text, Val(search).query, ~Val(search).caseSensitive)

LayersKeep(layers, text) ==
    \A k \in 1..Len(layers) :
        layers[k].query = "" \/ Contains(text, layers[k].query, ~layers[k].caseSensitive)

\* the call at the head of the queue is the finished signal of a connected
\* pipeline worker of a registered session
PipelineLanding ==
    /\ Len(queue) > 0
    /\ Head(queue).slot = "bridge"
    /\ Head(queue).sig = "finished"
    /\ workers[Head(queue).w].role = "pipeline"
    /\ workers[Head(queue).w].conn = "bridge"
    /\ sessions[workers[Head(queue).w].fid].registered

Landed == queue' = Tail(queue)

\* the session of the worker is that of a non-empty file whose index is installed
Loaded(w) ==
    /\ sessions[w.fid].gen = w.gen
    /\ LineCount(w.path) > 0
    /\ Len(sessions[w.fid].line_offsets) = LineCount(w.path)

Count(evs, type) == Cardinality({i \in 1..Len(evs) : evs[i].type = type})

Retired(w) == ~workers[w].is_running

\* ---- C1
\* C1: for every non-empty content and every thread count 1..8 the table the
\* indexing worker emits is the table of one sequential scan: it starts with
\* 0, is strictly increasing, holds p + 1 exactly for the LF positions p with
\* p + 1 < size; its length is the number of lines and the bytes between
\* consecutive offsets (the last up to size) are the lines.
C1_IndexEqualsSequentialScan ==
    ix.pc = "done" =>
        /\ ix.offsets = SequentialScan(ix.content)
        /\ ix.offsets[1] = 0
        /\ StrictlyIncreasing(ix.offsets)
        /\ Len(ix.offsets) = Len(SplitLines(ix.content))
        /\ \A i \in 1..Len(ix.offsets) :
              SliceLine(ix.content, ix.offsets[i],
                        IF i < Len(ix.offsets) THEN ix.offsets[i + 1]
                        ELSE Len(ix.content))
              = SplitLines(ix.content)[i]

\* a run with several chunks over a content with LFs on chunk ends and a
\* last line without LF has completed
C1_Witness ==
    /\ ix.pc = "done"
    /\ ix.n = 2
    /\ ix.content = <<"a", LF, "a", LF, "a">>
    /\ ix.offsets = <<0, 2, 4>>

\* ---- C2
\* C2: when the pipeline of a sync_all with no layers and a search query
\* completes (on a loaded file), visible_indices is None, the visible count reported is the
\* line count of the file, and search_matches holds exactly the physical
\* indices of the lines that match the query.
C2_SearchOnlyDoesNotFilter ==
    [][(PipelineLanding /\ Landed
        /\ Loaded(workers[Head(queue).w])
        /\ Len(workers[Head(queue).w].layers) = 0
        /\ HasQuery(workers[Head(queue).w].search))
       => LET w == workers[Head(queue).w]
              after == sessions'[w.fid]
              fin == events'[w.req][Len(events'[w.req]) - 1]
          IN  /\ after.visible_indices = None
              /\ fin.type = "pipeline_finished"
              /\ fin.a = LineCount(w.path)
              /\ after.search_matches =
                     Some(Physical(w.path, LAMBDA t : QueryHits(w.search, t)))
              /\ fin.b = Len(Val(after.search_matches))]_vars

\* ---- C3
\* C3: when the pipeline of at least one processing layer and a search query
\* completes (on a loaded file), visible_indices holds every line that survives the layers,
\* matching the search or not, and search_matches holds exactly the virtual
\* indices v such that line visible_indices[v] matches the query.
C3_FilterThenSearch ==
    [][(PipelineLanding /\ Landed
        /\ Loaded(workers[Head(queue).w])
        /\ Len(workers[Head(queue).w].layers) > 0
        /\ HasQuery(workers[Head(queue).w].search))
       => LET w == workers[Head(queue).w]
              after == sessions'[w.fid]
              lines == SplitLines(FileContent(w.path))
              vis == Physical(w.path, LAMBDA t : LayersKeep(w.layers, t))
          IN  /\ after.visible_indices = Some(vis)
              /\ after.search_matches =
                     Some(SortedSeq({v - 1 : v \in {u \in 1..Len(vis) :
                                         QueryHits(w.search, lines[vis[u] + 1])}}))]_vars

\* ---- C4
\* C4: in every reachable state the visible_indices of a session is None or
\* a strictly increasing sequence of physical indices below len(line_offsets).
C4_VisibleIndicesValid ==
    \A f \in FileIds :
        (sessions[f].registered /\ ~IsNone(sessions[f].visible_indices)) =>
            /\ StrictlyIncreasing(Val(sessions[f].visible_indices))
            /\ \A i \in 1..Len(Val(sessions[f].visible_indices)) :
                  /\ Val(sessions[f].visible_indices)[i] >= 0
                  /\ Val(sessions[f].visible_indices)[i] < Len(sessions[f].line_offsets)

Ev(evs, r) == IF r <= Len(evs) THEN evs[r] ELSE <<>>

\* request r2 is a sync_all that found the pipeline worker of the sync_all r1
\* in the worker table before that worker's completion reached the bridge
Overtakes(rq, r1, r2) ==
    /\ r1 < r2
    /\ r2 <= Len(rq)
    /\ rq[r1].op = "sync_all"
    /\ rq[r2].op = "sync_all"
    /\ rq[r2].prev # 0
    /\ workers[rq[r2].prev].req = r1
    /\ rq[r2].busy

\* the tables and counts a completed run of the request's configuration gives
Expected(rq, lines) ==
    IF Len(rq.layers) = 0 /\ ~HasQuery(rq.search)
    THEN [visible_indices |-> None, search_matches |-> None, a |-> lines, b |-> 0]
    ELSE LET r == PipelineRun(rq.layers, rq.search, sessions[rq.fid].path)
         IN  [visible_indices |-> Some(r.visible_indices),
              search_matches |-> Some(r.search_matches),
              a |-> Len(r.visible_indices), b |-> Len(r.search_matches)]

PipelineRequest(r) == reqs[r].op \in {"sync_all", "search_ripgrep"}

PipelineStarted(e) == e.type = "operation_started" /\ e.op = "pipeline"

Terminals(evs) == {i \in 1..Len(evs) : Terminal(evs[i])}

\* the request started no worker: no layer instances and no search query
FastPath(r) == Len(reqs[r].layers) = 0 /\ ~HasQuery(reqs[r].search)

\* C8 (as claimed): every pipeline_finished or operation_error(pipeline) of a
\* sync_all/search_ripgrep request comes after an operation_started(pipeline)
\* of that request, and the request has at most one such terminal signal.
C8_TerminalAfterStarted ==
    \A r \in 1..Len(reqs) :
        PipelineRequest(r) =>
            /\ \A i \in Terminals(events[r]) :
                  \E j \in 1..(i - 1) : PipelineStarted(events[r][j])
            /\ Cardinality(Terminals(events[r])) <= 1

\* C8 (amended): a request that starts a pipeline worker emits
\* operation_started(pipeline) first and is followed by at most one terminal
\* signal, emitted on the worker's completion; a request with no layer
\* instances and no search query emits pipeline_finished at once, without
\* operation_started, and nothing terminal after it.
C8_WorkerTerminalAfterStarted ==
    \A r \in 1..Len(reqs) :
        PipelineRequest(r) =>
            IF FastPath(r)
            THEN /\ events[r][1].type = "pipeline_finished"
                 /\ Terminals(events[r]) = {1}
                 /\ \A j \in 1..Len(events[r]) : ~PipelineStarted(events[r][j])
            ELSE /\ PipelineStarted(events[r][1])
                 /\ Cardinality({j \in 1..Len(events[r]) : PipelineStarted(events[r][j])}) = 1
                 /\ Cardinality(Terminals(events[r])) <= 1

\* a request that started a worker has its pipeline_finished, and another
\* request took the fast path
C8_Witness ==
    \E r1, r2 \in 1..Len(reqs) :
        /\ PipelineRequest(r1) /\ ~FastPath(r1)
        /\ \E i \in Terminals(events[r1]) : i > 1 /\ events[r1][i].type = "pipeline_finished"
        /\ PipelineRequest(r2) /\ FastPath(r2)

\* ---- C9
\* C9: of two workers of the same file_id and role the older one has been
\* retired (disconnected from the bridge and signalled to stop): at most one
\* worker per session and role is not stopped, and a replaced worker cannot
\* emit into the bridge once its replacement exists.
C9_OneLiveWorkerPerRole ==
    \A w1, w2 \in 1..Len(workers) :
        (w1 < w2 /\ workers[w1].fid = workers[w2].fid
                 /\ workers[w1].role = workers[w2].role)
        => (~workers[w1].is_running /\ workers[w1].conn # "bridge")

\* a running pipeline worker was replaced by another that now runs
C9_Witness ==
    \E w1, w2 \in 1..Len(workers) :
        /\ w1 < w2
        /\ workers[w1].fid = workers[w2].fid
        /\ workers[w1].role = "pipeline" /\ workers[w2].role = "pipeline"
        /\ workers[w1].pc = "running" /\ workers[w2].pc = "running"
        /\ workers[w2].is_running

\* ---- C10
\* C10: a retired worker leaves the zombie list once its thread has ended,
\* also when it was running when it was retired: when every thread has ended
\* and every posted call has been taken, the zombie list is empty.
C10_ZombiesDrain ==
    (Len(queue) = 0 /\ \A w \in 1..Len(workers) : workers[w].pc = "ended")
    => zombies = {}

\* ---- C11
\* the step is a call of open_file that returns False
OpenFailed ==
    /\ nav'.op = "open_file"
    /\ nav'.ret = FALSE
    /\ (nav' # nav \/ Len(reqs') > Len(reqs))

\* C11: after a call of open_file that returns False no session is registered
\* under the file_id, also when one was registered before the call; the call
\* starts no worker and emits no file_loaded.
C11_FailedOpenLeavesNoSession ==
    [][OpenFailed =>
          /\ ~sessions'[nav'.fid].registered
          /\ Len(workers') = Len(workers)
          /\ Count(Concat(events'), "file_loaded") = Count(Concat(events), "file_loaded")]_vars

\* ---- C12
\* the completion at the head of the queue is that of a pipeline run one of
\* whose engine processes exited with a code greater than 1
EngineFailed(w) ==
    ChainExit(BuildCmdChain(w.layers, w.search, w.path), 1, <<>>) > 1

\* C12: when a stage of a pipeline run (on a loaded file) exits with a code greater than 1 the
\* bridge emits operation_error for the pipeline and no pipeline_finished for
\* that run, and visible_indices and search_matches keep their values.
C12_EngineErrorReported ==
    [][(PipelineLanding /\ Landed /\ Loaded(workers[Head(queue).w])
        /\ EngineFailed(workers[Head(queue).w]))
       => LET w == workers[Head(queue).w]
          IN  /\ Count(events'[w.req], "operation_error")
                   = Count(events[w.req], "operation_error") + 1
              /\ Count(events'[w.req], "pipeline_finished")
                   = Count(events[w.req], "pipeline_finished")
              /\ sessions'[w.fid].visible_indices = sessions[w.fid].visible_indices
              /\ sessions'[w.fid].search_matches = sessions[w.fid].search_matches]_vars

\* ---- C13: a call for a file_id that has no session returns the empty or
\* default value (an empty list for read_processed_lines,
\* get_search_matches_range and the bookmark requests toggle, get and clear;
\* -1 for get_search_match_index, get_nearest_search_rank and the nearest
\* bookmark; its argument for physical_to_visual_index; False for sync_all
\* and search_ripgrep) and creates no session, starts no worker and emits
\* no event.
ListCalls == {"read_processed_lines", "get_search_matches_range", "toggle_bookmark",
              "get_bookmarks", "clear_bookmarks"}

RankCalls == {"get_search_match_index", "get_nearest_search_rank",
              "get_nearest_bookmark_index"}

FlagCalls == {"sync_all", "search_ripgrep"}

\* this step is a call of one of these operations for a file_id without session
CalledAbsent(ops) ==
    /\ nav'.op \in ops
    /\ ~sessions[nav'.fid].registered

ReadRaised ==
    /\ \E t \in Threads : rd[t].pc # "idle" /\ rd'[t].pc = "idle"
    /\ nav'.op = "read_processed_lines"
    /\ nav'.exc # ""

C14_ReadNeverRaises == [][~ReadRaised]_vars

\* ---- C15: physical_to_visual_index returns its argument when the view is
\* unfiltered; otherwise the index v with visible_indices[v] = phys when
\* phys is visible (so every visible_indices[v] is mapped to v), and when
\* phys is filtered out the index of the greatest visible entry smaller
\* than phys, or 0 if there is none; the result is non-decreasing in phys.
Smaller(t, x) == {k \in 1..Len(t) : t[k] < x}

Greater(t, x) == {k \in 1..Len(t) : t[k] > x}

Least(S) == CHOOSE k \in S : \A j \in S : k <= j

Greatest(S) == CHOOSE k \in S : \A j \in S : k >= j

Called(op) == nav'.op = op /\ sessions[nav'.fid].registered

C15_PhysicalToVisual ==
    [][Called("physical_to_visual_index") =>
        LET sess == sessions[nav'.fid]
            phys == nav'.arg[1]
            v == nav'.ret
        IN  IF IsNone(sess.visible_indices) THEN v = phys
            ELSE LET t == Val(sess.visible_indices)
                 IN  /\ IF \E k \in 1..Len(t) : t[k] = phys
                        THEN v \in 0..(Len(t) - 1) /\ t[v + 1] = phys
                        ELSE v = IF Smaller(t, phys) = {} THEN 0
                                 ELSE Greatest(Smaller(t, phys)) - 1
                     /\ \A k \in 1..Len(t) :
                           physical_to_visual_index(sess, t[k]) = k - 1
                     /\ \A q \in NavRows :
                           q <= phys => physical_to_visual_index(sess, q) <= v]_vars

\* a filtered-out line behind two visible lines was mapped to the second
C15_Witness ==
    /\ nav.op = "physical_to_visual_index"
    /\ sessions[nav.fid].registered
    /\ ~IsNone(sessions[nav.fid].visible_indices)
    /\ \A k \in 1..Len(Val(sessions[nav.fid].visible_indices)) :
          Val(sessions[nav.fid].visible_indices)[k] # nav.arg[1]
    /\ nav.ret = 1

\* ---- C16: over a non-empty strictly increasing search_matches,
\* get_nearest_search_rank(c, 'next') is the rank of the smallest match
\* greater than c, or 0 if there is none; 'prev' is the rank of the largest
\* match less than c, or the last rank if there is none; a match equal to
\* c is returned only if it is the only match; with no matches it is -1.
C16_NearestSearchRank ==
    [][Called("get_nearest_search_rank") =>
        LET sess == sessions[nav'.fid]
            c == nav'.arg[1]
            r == nav'.ret
            m == IF IsNone(sess.search_matches) THEN <<>> ELSE Val(sess.search_matches)
        IN  IF Len(m) = 0 THEN r = -1
            ELSE /\ StrictlyIncreasing(m)
                 /\ nav'.arg[2] = "next" =>
                       r = IF Greater(m, c) = {} THEN 0 ELSE Least(Greater(m, c)) - 1
                 /\ nav'.arg[2] = "prev" =>
                       r = IF Smaller(m, c) = {} THEN Len(m) - 1
                           ELSE Greatest(Smaller(m, c)) - 1
                 /\ m[r + 1] = c => Len(m) = 1]_vars

\* 'prev' on a row that is itself the first of several matches wrapped to the last
C16_Witness ==
    /\ nav.op = "get_nearest_search_rank"
    /\ sessions[nav.fid].registered
    /\ ~IsNone(sessions[nav.fid].search_matches)
    /\ Len(Val(sessions[nav.fid].search_matches)) >= 2
    /\ nav.arg[2] = "prev"
    /\ Val(sessions[nav.fid].search_matches)[1] = nav.arg[1]
    /\ nav.ret = Len(Val(sessions[nav.fid].search_matches)) - 1

\* ---- C17: for every rank r in [0, M) of a table of M matches,
\* get_nearest_search_rank(get_search_match_index(r), 'next') = (r+1) mod M
\* and the same with 'prev' = (r-1) mod M; get_search_match_index returns
\* -1 for a rank outside [0, M).
C17_RankRoundTrip ==
    [][Called("get_search_match_index") =>
        LET sess == sessions[nav'.fid]
            r == nav'.arg[1]
            M == IF IsNone(sess.search_matches) THEN 0 ELSE Len(Val(sess.search_matches))
        IN  IF r >= 0 /\ r < M
            THEN /\ get_nearest_search_rank(sess, nav'.ret, "next") = (r + 1) % M
                 /\ get_nearest_search_rank(sess, nav'.ret, "prev") = (r - 1) % M
            ELSE nav'.ret = -1]_vars

\* the row of the last of three matches was looked up
C17_Witness ==
    /\ nav.op = "get_search_match_index"
    /\ sessions[nav.fid].registered
    /\ ~IsNone(sessions[nav.fid].search_matches)
    /\ Len(Val(sessions[nav.fid].search_matches)) = 3
    /\ nav.arg[1] = 2
    /\ nav.ret = Val(sessions[nav.fid].search_matches)[3]

\* ---- C18: toggling the bookmark of a line twice in succession leaves the
\* mapping line -> comment as it was, whatever the mapping and the line,
\* and whether or not the line carried a comment: after a first toggle of
\* a line, the second toggle of that line gives back the mapping from
\* before the first.
BookmarksOf(sess) == sess.rendering_instances[FindBookmarkLayer(sess)].bookmarks

Toggled ==
    /\ nav'.op = "toggle"
    /\ sessions[nav'.fid].registered
    /\ FindBookmarkLayer(sessions[nav'.fid]) # 0
    /\ sessions' # sessions

C18_ToggleTwiceRestores ==
    [][Toggled => toggle(BookmarksOf(sessions'[nav'.fid]), nav'.arg[1])
                    = BookmarksOf(sessions[nav'.fid])]_vars

\* ---- C19: a bookmark operation on a session (toggle_bookmark,
\* clear_bookmarks) leaves line_offsets, visible_indices and search_matches
\* as they were and starts no worker; it leaves the line cache empty and
\* emits one pipeline_finished carrying the counts of the unchanged tables.
BookmarkRequested ==
    /\ nav'.op \in {"toggle_bookmark", "clear_bookmarks"}
    /\ sessions[nav'.fid].registered
    /\ (nav' # nav \/ sessions' # sessions \/ events' # events)

NewEvents == IF Len(events') > Len(events) THEN events'[Len(events')] ELSE <<>>

C19_BookmarkFrame ==
    [][BookmarkRequested =>
        LET old == sessions[nav'.fid]
            new == sessions'[nav'.fid]
        IN  /\ new.line_offsets = old.line_offsets
            /\ new.visible_indices = old.visible_indices
            /\ new.search_matches = old.search_matches
            /\ workers' = workers
            /\ new.cache = {}
            /\ Len(NewEvents) = 1
            /\ NewEvents[1].type = "pipeline_finished"
            /\ NewEvents[1].a = indices_len(old)
            /\ NewEvents[1].b = matches_len(old)]_vars

\* ---- C20: with bookmarks and a view that is not empty,
\* get_nearest_bookmark_index(current, 'next') for a row current of the
\* view is physical_to_visual_index of the smallest bookmarked line greater
\* than the physical line shown at that row, or of the first bookmark when
\* there is none; 'prev' is that of the largest bookmarked line smaller, or
\* of the last bookmark; without bookmarks or with an empty filtered view
\* the result is -1.
ShownAt(sess, row) ==
    IF IsNone(sess.visible_indices) THEN row ELSE Val(sess.visible_indices)[row + 1]

RowsOf(sess) ==
    IF IsNone(sess.visible_indices) THEN 0..(Len(sess.line_offsets) - 1)
    ELSE 0..(Len(Val(sess.visible_indices)) - 1)

C20_NearestBookmark ==
    [][Called("get_nearest_bookmark_index") =>
        LET sess == sessions[nav'.fid]
            current == nav'.arg[1]
            marks == IF FindBookmarkLayer(sess) = 0 THEN {}
                     ELSE DOMAIN BookmarksOf(sess)
            above == {b \in marks : b > ShownAt(sess, current)}
            below == {b \in marks : b < ShownAt(sess, current)}
        IN  IF marks = {} \/ RowsOf(sess) = {}
            THEN (marks = {} \/ ~IsNone(sess.visible_indices)) => nav'.ret = -1
            ELSE current \in RowsOf(sess) =>
                   nav'.ret = physical_to_visual_index(sess,
                       IF nav'.arg[2] = "next"
                       THEN (IF above = {} THEN Least(marks) ELSE Least(above))
                       ELSE (IF below = {} THEN Greatest(marks) ELSE Greatest(below)))]_vars

\* 'next' from the row of the last bookmark of a filtered view wrapped to
\* the first bookmark, a line that the view does not show
C20_Witness ==
    /\ nav.op = "get_nearest_bookmark_index"
    /\ nav.arg[2] = "next"
    /\ sessions[nav.fid].registered
    /\ ~IsNone(sessions[nav.fid].visible_indices)
    /\ FindBookmarkLayer(sessions[nav.fid]) # 0
    /\ nav.arg[1] \in RowsOf(sessions[nav.fid])
    /\ DOMAIN BookmarksOf(sessions[nav.fid]) = {0, ShownAt(sessions[nav.fid], nav.arg[1])}
    /\ ShownAt(sessions[nav.fid], nav.arg[1]) = 2
    /\ Val(sessions[nav.fid].visible_indices) = <<1, 2>>
    /\ nav.ret = 0

\* ---- C21
\* the pipeline_finished events of a request
Finished(r) == {i \in 1..Len(events[r]) : events[r][i].type = "pipeline_finished"}

\* two sync_all requests for the same session with the same layers and search
SameSync(r1, r2) ==
    /\ r1 < r2
    /\ reqs[r1].op = "sync_all" /\ reqs[r2].op = "sync_all"
    /\ reqs[r1].fid = reqs[r2].fid
    /\ reqs[r1].layers = reqs[r2].layers
    /\ reqs[r1].search = reqs[r2].search
    /\ \A q \in r1..r2 : reqs[q].op \notin {"open_file", "close_file"}

\* C21: sync_all called twice with the same layers and the same search
\* configuration, each run being allowed to complete, gives identical tables
\* and identical counts (visible lines, matches) in the two
\* pipeline_finished events.
C21_SyncAllIdempotent ==
    \A r1 \in 1..Len(reqs), r2 \in 1..Len(reqs) :
        SameSync(r1, r2) =>
            \A i \in Finished(r1), j \in Finished(r2) :
                /\ events[r1][i].a = events[r2][j].a
                /\ events[r1][i].b = events[r2][j].b

\* ---- C22
\* the call at the head of the queue is the finished signal of a connected
\* stats worker
StatsLanding ==
    /\ Len(queue) > 0
    /\ Head(queue).slot = "bridge"
    /\ Head(queue).sig = "finished"
    /\ workers[Head(queue).w].role = "stats"
    /\ workers[Head(queue).w].conn = "bridge"

HasOwnQuery(l) == l.query # "" \/ (l.type = "LEVEL" /\ Len(l.levels) > 0)

\* the positions of the queryable layers of a list, in list order
Queryable(layers) ==
    SelectSeq([k \in 1..Len(layers) |-> k],
              LAMBDA k : layers[k].id # "" /\ HasOwnQuery(layers[k]))

\* a line matches the query of a layer (one of the levels of a level layer)
LayerQueryHits(l, text) ==
    IF l.type = "LEVEL"
    THEN \E k \in 1..Len(l.levels) : \E i \in 1..Len(text) : text[i] = l.levels[k]
    ELSE Matches(text, l.query, ~l.caseSensitive, ~l.regex)

\* the physical indices of the lines that match the query of layer k and the
\* query of every enabled Filter/Level layer before it
StatsLines(layers, k, path) ==
    LET lines == SplitLines(FileContent(path))
    IN  {j - 1 : j \in {i \in 1..Len(lines) :
            /\ LayerQueryHits(layers[k], lines[i])
            /\ \A p \in 1..(k - 1) :
                  (layers[p].enabled /\ layers[p].type \in {"FILTER", "LEVEL"}
                      /\ HasOwnQuery(layers[p]))
                  => LayerQueryHits(layers[p], lines[i])}}

\* C22: for each queryable layer the count reported by the stats worker is
\* the number of lines that match the layer's own query and the query of
\* every enabled Filter/Level layer before it in the list; a disabled filter
\* layer and the layer's own query are not part of its prefix.
C22_StatsCountPrefix ==
    [][(StatsLanding /\ Landed)
       => LET w == workers[Head(queue).w]
              stats == Head(queue).args.stats
              q == Queryable(w.layers)
          IN  /\ Len(stats) = Len(q)
              /\ \A n \in 1..Len(q) :
                    /\ stats[n].id = w.layers[q[n]].id
                    /\ stats[n].count = Cardinality(StatsLines(w.layers, q[n], w.path))]_vars

\* the statistics of a highlight layer after a filter layer were reported:
\* 2 of the 4 lines with E hold T
C22_Witness ==
    \E r \in 1..Len(events) : \E i \in 1..Len(events[r]) :
        /\ events[r][i].type = "stats_finished"
        /\ Len(events[r][i].p) = 2
        /\ events[r][i].p[1].id = "fT" /\ events[r][i].p[1].count = 2
        /\ events[r][i].p[2].id = "hE" /\ events[r][i].p[2].count = 2

\* ---- C23
\* the normalized distribution of a set of physical indices over the buckets
Distribution(phys, total_lines) ==
    LET cnt == [b \in 1..Buckets |->
                   Cardinality({p \in phys :
                       Min(Buckets - 1, (p * Buckets) \div total_lines) = b - 1})]
        largest == CHOOSE v \in {cnt[b] : b \in 1..Buckets} :
                       \A b \in 1..Buckets : cnt[b] <= v
    IN  [b \in 1..Buckets |-> IF largest > 0 THEN <<cnt[b], largest>> ELSE <<0, 1>>]

\* C23: for every layer, also one preceded by enabled filter layers, each
\* counted line is added to bucket min(19, floor(phys * 20 / total_lines))
\* with phys its physical index in the file, and the reported distribution
\* is the bucket counts over the largest bucket count.
C23_StatsDistribution ==
    [][(StatsLanding /\ Landed)
       => LET w == workers[Head(queue).w]
              stats == Head(queue).args.stats
              q == Queryable(w.layers)
          IN  \A n \in 1..Len(stats) :
                 n <= Len(q) =>
                    stats[n].distribution =
                        Distribution(StatsLines(w.layers, q[n], w.path), LineCount(w.path))]_vars

\* ---- C24
\* the s-th through e-th entries (1-based, inclusive) of a sequence
RangeWindow(seq, s, e) == SubSeq(seq, s, Min(e, Len(seq)))

\* the windows of the range layers among the logic layers, in list order
RECURSIVE Windows(_, _, _)
Windows(logic, k, seq) ==
    IF k > Len(logic) THEN seq
    ELSE Windows(logic, k + 1,
             IF logic[k].type = "RANGE"
             THEN RangeWindow(seq, logic[k].start, logic[k].end) ELSE seq)

\* the physical indices of the lines the native stages of a run let through
NativeOut(w) ==
    PipelineRun(SelectSeq(w.layers, LAMBDA l : StageOf(l.type) = "native"),
                w.search, w.path).visible_indices

HasLayer(layers, type) == \E k \in 1..Len(layers) : layers[k].type = type

\* C24: a Range layer with start s and end e keeps exactly the s-th through
\* e-th (1-based, inclusive) of the lines that reach it, that is of the lines
\* that passed the native filters and the logic layers before it; FILTER E
\* then RANGE 2..3 on the five-line example gives [1,3]; the count starts
\* from zero in every run, also in a run over the instances of the run
\* before it.
C24_RangeWindow ==
    [][(PipelineLanding /\ Landed /\ HasLayer(workers[Head(queue).w].layers, "RANGE"))
       => LET w == workers[Head(queue).w]
          IN  /\ sessions'[w.fid].visible_indices =
                     Some(Windows(SelectSeq(w.layers, LAMBDA l : StageOf(l.type) = "logic"),
                                  1, NativeOut(w)))
              /\ (w.path = "a.log" /\ w.layers = <<FilterConf("fE", "E"), RangeConf("r23", 2, 3)>>
                     /\ ~HasQuery(w.search))
                    => sessions'[w.fid].visible_indices = Some(<<1, 3>>)]_vars

\* ---- C25
RenderingTypes == {"HIGHLIGHT", "ROWTINT", "BOOKMARK"}

\* this step is a sync_all of a registered session whose enabled layers are
\* all rendering layers (at least one) and that has no search query
RenderingSync ==
    /\ Len(reqs') = Len(reqs) + 1
    /\ reqs'[Len(reqs')].op = "sync_all"
    /\ Len(reqs'[Len(reqs')].layers) > 0
    /\ \A k \in 1..Len(reqs'[Len(reqs')].layers) :
          reqs'[Len(reqs')].layers[k].type \in RenderingTypes
    /\ ~HasQuery(reqs'[Len(reqs')].search)

\* C25: rendering layers (Highlight, Row-Tint, Bookmark) are never passed to
\* the pipeline worker and never affect visibility: after a sync whose
\* enabled layers are all rendering layers and that has no search query, no
\* pipeline worker was started for it and visible_indices is None.
C25_RenderingStartsNoPipeline ==
    [][RenderingSync
       => LET f == reqs'[Len(reqs')].fid
          IN  /\ \A w \in 1..Len(workers') :
                    ~(workers'[w].role = "pipeline" /\ workers'[w].req = Len(reqs'))
              /\ sessions'[f].workers["pipeline"] = 0
              /\ IsNone(sessions'[f].visible_indices)]_vars

\* ---- C26
\* C26: layers are evaluated in the order of the session's layer list, so a
\* substring filter declared after a substring transform is applied to the
\* transformed content: the run of [TRANSFORM, FILTER] keeps the lines whose
\* transformed content holds the filter's query, and [TRANSFORM(\d+ -> N),
\* FILTER 'foo N'] on the lines 'foo 12', 'bar 34', 'foo baz' gives [0].
C26_FilterAfterTransform ==
    [][(PipelineLanding /\ Landed
          /\ Len(workers[Head(queue).w].layers) = 2
          /\ workers[Head(queue).w].layers[1].type = "TRANSFORM"
          /\ workers[Head(queue).w].layers[2].type = "FILTER"
          /\ ~HasQuery(workers[Head(queue).w].search))
       => LET w == workers[Head(queue).w]
              t == w.layers[1]
              f == w.layers[2]
              Keep(line) == Contains(process_line(t, line), f.query, ~f.caseSensitive)
          IN  /\ sessions'[w.fid].visible_indices = Some(Physical(w.path, Keep))
              /\ (w.path = "c.log" /\ t = ReplaceConf("tN", "\\d+", "N")
                     /\ f = FilterConf("fN", "foo N"))
                    => sessions'[w.fid].visible_indices = Some(<<0>>)]_vars

\* ---- C27
\* C27: for an empty file open_file registers a session with an empty offset
\* table and emits file_loaded with lineCount 0 without starting an indexing
\* worker, and later sync_all and search_ripgrep calls never start a
\* pipeline worker for it: visible_indices stays None and the match table
\* stays empty.
C27_EmptyFileNoPipeline ==
    \A f \in FileIds :
        (sessions[f].registered /\ sessions[f].size = 0) =>
            /\ Len(sessions[f].line_offsets) = 0
            /\ sessions[f].workers["indexing"] = 0
            /\ \E i \in 1..Len(events[sessions[f].gen]) :
                  /\ events[sessions[f].gen][i].type = "file_loaded"
                  /\ events[sessions[f].gen][i].a = 0
            /\ sessions[f].workers["pipeline"] = 0
            /\ IsNone(sessions[f].visible_indices)
            /\ IsNone(sessions[f].search_matches) \/ Val(sessions[f].search_matches) = <<>>

\* ---- C28
\* the call at the head of the queue is the error signal of a connected
\* indexing worker
IndexingErrorLanding ==
    /\ Len(queue) > 0
    /\ Head(queue).slot = "bridge"
    /\ Head(queue).sig = "error"
    /\ workers[Head(queue).w].role = "indexing"
    /\ workers[Head(queue).w].conn = "bridge"

\* C28: if the indexing worker of an open_file fails, operation_error
\* (file_id, 'indexing', message) is emitted and the session is discarded:
\* afterwards no session is registered under that file_id and no
\* file_loaded is emitted for that open.
C28_IndexingFailureDiscards ==
    [][(IndexingErrorLanding /\ Landed)
       => LET w == workers[Head(queue).w]
          IN  /\ \E i \in 1..Len(events'[w.req]) :
                    /\ events'[w.req][i].type = "operation_error"
                    /\ events'[w.req][i].op = "indexing"
              /\ Count(events'[w.req], "file_loaded") = 0
              /\ ~sessions'[w.fid].registered]_vars

\* ---- C29
\* the predicate a native layer stands for by its own configuration
OwnPredicate(l, text) ==
    IF l.type = "LEVEL"
    THEN \E k \in 1..Len(l.levels) : Contains(text, l.levels[k], TRUE)
    ELSE Matches(text, l.query, ~l.caseSensitive, ~l.regex) # l.invert

\* every layer of the list is an enabled native layer that contributes arguments
NativeOnly(layers) ==
    /\ Len(layers) > 0
    /\ \A k \in 1..Len(layers) :
          /\ layers[k].type \in {"FILTER", "LEVEL"}
          /\ layers[k].enabled
          /\ layers[k].type = "FILTER" => layers[k].query # ""

\* C29: for any list of enabled native layers (substring filters with their
\* regex, case, whole-word and exclude flags; level filters) the visible set
\* of the pipeline is exactly the set of lines that satisfy every layer's own
\* predicate, whatever the position of a layer in the list (an exclude
\* filter removes its lines in any position), hence the same for every
\* permutation of the list.
C29_NativeLayersConjunction ==
    [][(PipelineLanding /\ Landed /\ NativeOnly(workers[Head(queue).w].layers)
          /\ ~HasQuery(workers[Head(queue).w].search))
       => LET w == workers[Head(queue).w]
              Keep(line) == \A k \in 1..Len(w.layers) : OwnPredicate(w.layers[k], line)
          IN  sessions'[w.fid].visible_indices = Some(Physical(w.path, Keep))]_vars

\* ---- C30
\* the layers of a list that contribute arguments or are not native
Contributing(layers) ==
    SelectSeq(layers, LAMBDA l : StageOf(l.type) = "native" => Len(get_rg_args(l)) > 0)

\* C30: in every command chain the pipeline worker builds, the first command
\* reads the file with line numbers and every later command reads the output
\* of the command before it, also when some native layers contribute no
\* arguments (empty query): those are no-ops, and visible_indices is the
\* result of the run without them.
C30_ChainReadsFile ==
    [][(PipelineLanding /\ Landed /\ ResetPoints(workers[Head(queue).w]) = {1})
       => LET w == workers[Head(queue).w]
              chain == BuildCmdChain(w.layers, w.search, w.path)
          IN  /\ chain[1].kind = "file"
              /\ \A i \in 2..Len(chain) : chain[i].kind = "pipe"
              /\ sessions'[w.fid].visible_indices =
                     Some(PipelineRun(Contributing(w.layers), w.search, w.path).visible_indices)]_vars

\* ---- C31
\* C31: for every combination of the regex, caseSensitive, wholeWord and
\* invert flags and every non-empty query, get_rg_args of a filter layer
\* returns a list whose last element is the query, immediately preceded by
\* -e; an empty query yields the empty list.
C31_QueryFollowsE ==
    nav.op = "get_rg_args"
       => LET args == nav.ret
              n == Len(args)
          IN  IF nav.arg.query = "" THEN n = 0
              ELSE /\ n >= 2
                   /\ args[n] = nav.arg.query
                   /\ args[n - 1] = "-e"

\* ---- C32
\* no update is in flight: no worker is inside run() and no call is posted
Quiet == queue = <<>> /\ \A w \in 1..Len(workers) : workers[w].pc # "running"

\* the row a fresh computation returns for virtual index i of a session
FreshRow(sess, i) ==
    LET real_idx == IF ~IsNone(sess.visible_indices)
                    THEN At(Val(sess.visible_indices), i) ELSE i
        start_off == At(sess.line_offsets, real_idx)
        end_off == IF real_idx + 1 < Len(sess.line_offsets)
                   THEN At(sess.line_offsets, real_idx + 1) ELSE sess.size
    IN  [index |-> real_idx,
         content |-> rstrip(SubSeq(FileContent(sess.path), start_off + 1, end_off))]

\* the virtual rows of a session
Virtual(sess) ==
    0..((IF ~IsNone(sess.visible_indices) THEN Len(Val(sess.visible_indices))
         ELSE Len(sess.line_offsets)) - 1)

\* C32: after _on_pipeline_finished has installed a new visible_indices and
\* cleared the line cache, the cache holds no row computed from the table
\* before it, also when a read_processed_lines call was in progress during
\* the swap: once no update is in flight and no read is in progress, every
\* row of the cache is the row a fresh computation returns for its virtual
\* index.
C32_CacheNeverStale ==
    (Quiet /\ rd = NoReaders)
       => \A fid \in FileIds : \A c \in sessions[fid].cache :
             /\ c.i \in Virtual(sessions[fid])
             /\ c.row = FreshRow(sessions[fid], c.i)

\* ---- C33
\* C33: in every reachable state the number of entries of a session's line
\* cache is at most the limit (5000 in the code), also when several
\* read_processed_lines calls on the same session run concurrently.
C33_CacheBounded ==
    \A fid \in FileIds : Cardinality(sessions[fid].cache) <= CacheLimit

\* ---- C34
\* the call of thread t returns a value in this step
ReadReturns(t) ==
    /\ rd[t].pc # "idle"
    /\ rd'[t].pc = "idle"
    /\ nav'.op = "read_processed_lines"
    /\ nav'.exc = ""

\* C34: every call read_processed_lines(id, start, count) on an open session
\* that returns a value returns at most count rows, in ascending virtual order, only for virtual
\* rows in [start, min(start + count, total)), total being the visible
\* count; the index of every row is a physical index below the session's
\* line count and, for a freshly computed row v, is visible_indices[v] (v
\* when the view is unfiltered); a negative start returns the empty list;
\* also while the session's tables are being replaced.
C34_ReadRowsInRange ==
    [][\A t \in Threads : ReadReturns(t) =>
          LET r == rd[t]
              ret == nav'.ret
              start == r.arg[1]
              count == r.arg[2]
              total == IF ~IsNone(r.v_indices) THEN Len(Val(r.v_indices))
                       ELSE Len(r.offsets)
          IN  /\ Len(ret) <= count
              /\ start < 0 => ret = <<>>
              /\ r.pc = "row" =>
                    /\ ret = r.results
                    /\ Len(r.vs) = Len(ret)
                    /\ \A k \in 1..Len(ret) :
                          /\ r.vs[k].v >= start
                          /\ r.vs[k].v < Min(start + count, total)
                          /\ k > 1 => r.vs[k - 1].v < r.vs[k].v
                          /\ ret[k].index >= 0
                          /\ ret[k].index < Len(Held(r).line_offsets)
                          /\ r.vs[k].fresh =>
                                ret[k].index = (IF ~IsNone(r.v_indices)
                                                THEN Val(r.v_indices)[r.vs[k].v + 1]
                                                ELSE r.vs[k].v)]_vars

\* a call has returned two rows of a filtered view, the second of them not
\* the line that has its virtual index in the unfiltered file
C34_Witness ==
    /\ nav.op = "read_processed_lines"
    /\ nav.exc = ""
    /\ Len(nav.ret) = 2
    /\ nav.ret[2].index > nav.arg[1] + 1

\* ---- C35
\* the two tables of a session are the two results of one pipeline run (or
\* both None)
SameRun(sess) ==
    \/ IsNone(sess.visible_indices) /\ IsNone(sess.search_matches)
    \/ \E w \in 1..Len(workers) :
          /\ workers[w].role = "pipeline"
          /\ LET r == PipelineRun(workers[w].layers, workers[w].search, workers[w].path)
             IN  /\ sess.visible_indices = Some(r.visible_indices)
                 /\ sess.search_matches = Some(r.search_matches)

\* a request that reads a table of the session is served in this step
Served ==
    /\ nav' # nav
    /\ nav'.op \in {"get_search_match_index", "get_nearest_search_rank",
                    "physical_to_visual_index"}

\* C35: the two results of a pipeline run are installed atomically with
\* respect to requests: no request is served while the session holds the
\* visible_indices of one pipeline run together with the search_matches of
\* another.
C35_ResultsInstalledTogether ==
    [][Served => SameRun(sessions[nav'.fid])]_vars

\* ===================================================================== stop
\* stop() against the run of a worker, with the child processes of the
\* substring engine as part of the state.  In this specification workers
\* holds one worker of the shape below: todo are the chains still to run
\* (one for a PipelineWorker, one per task for a StatsWorker), chain the
\* kinds of the commands of the current one, procs every child spawned so
\* far (its kind, its state and the child it reads from, 0 for none),
\* tracked the children recorded in self._processes, and stdin the standard
\* input the backend was started with: at its end, or open and silent.
StopLayerLists ==
    {<<FilterConf("fE", "E")>>,
     <<FilterConf("fE", "E"), FilterConf("fT", "T")>>,
     <<FilterConf("f0", ""), FilterConf("fE", "E")>>}

\* the kinds of the commands PipelineWorker.run spawns for a layer list
PipelineKinds(layers) ==
    LET chain == BuildCmdChain(layers, None, "a.log")
    IN  [i \in 1..Len(chain) |-> chain[i].kind]

\* the kinds of the commands _run_layer_stats spawns for a task: the head
\* reads the file, every later command the one before it
StatsKinds(task) ==
    <<"file">> \o [i \in 1..Len(task.filters) |-> "pipe"]

StatsTodo(layers) ==
    LET tasks == StatsTasks(layers, 1, <<>>)
    IN  [i \in 1..Len(tasks) |-> StatsKinds(tasks[i])]

StopWorker(role, todo, stdin) ==
    [role |-> role, is_running |-> TRUE, stopped |-> FALSE, pc |-> "begin",
     todo |-> todo, chain |-> <<>>, base |-> 0, procs |-> <<>>, tracked |-> {},
     stdin |-> stdin]

StopInit ==
    /\ sessions = [f \in FileIds |-> NoSession]
    /\ queue = <<>> /\ zombies = {} /\ events = <<>> /\ nreq = 0 /\ reqs = <<>>
    /\ ix = IxIdle /\ nav = NoCall /\ rd = NoReaders
    /\ \E layers \in StopLayerLists, stdin \in {"eof", "open"} :
          \/ workers = <<StopWorker("pipeline", <<PipelineKinds(layers)>>, stdin)>>
          \/ workers = <<StopWorker("stats", StatsTodo(layers), stdin)>>

\* terminate() on the children of a set that are still running
Terminate(procs, which) ==
    [k \in 1..Len(procs) |->
        IF k \in which /\ procs[k].st = "run" THEN [procs[k] EXCEPT !.st = "killed"]
        ELSE procs[k]]

\* stop(): the flag is cleared and the children in self._processes are
\* terminated
StopCall ==
    LET w == workers[1]
    IN  /\ ~w.stopped /\ w.pc # "returned"
        /\ workers' = <<[w EXCEPT !.is_running = FALSE, !.stopped = TRUE,
                                  !.procs = Terminate(w.procs, w.tracked)]>>
        /\ UNCHANGED <<sessions, queue, zombies, events, nreq, reqs, ix, nav, rd>>

\* run takes its next chain; a task of the StatsWorker returns at once when
\* the flag is cleared, PipelineWorker.run does not test the flag here
RunBegin ==
    LET w == workers[1]
    IN  /\ w.pc = "begin"
        /\ workers' =
              IF Len(w.todo) = 0 THEN <<[w EXCEPT !.pc = "returned"]>>
              ELSE IF w.role = "stats" /\ ~w.is_running
              THEN <<[w EXCEPT !.todo = Tail(w.todo)]>>
              ELSE <<[w EXCEPT !.todo = Tail(w.todo), !.chain = Head(w.todo),
                               !.base = Len(w.procs), !.pc = "spawn"]>>
        /\ UNCHANGED <<sessions, queue, zombies, events, nreq, reqs, ix, nav, rd>>

\* one Popen of the chain: the first command has no stdin argument and so
\* inherits the standard input of the backend, a later one reads its
\* predecessor; only PipelineWorker records the child in self._processes
RunSpawn ==
    LET w == workers[1]
        k == Len(w.procs) - w.base + 1
        n == Len(w.procs) + 1
    IN  /\ w.pc = "spawn"
        /\ workers' =
              IF k > Len(w.chain) THEN <<[w EXCEPT !.pc = "read"]>>
              ELSE <<[w EXCEPT
                        !.procs = Append(@, [kind |-> w.chain[k], st |-> "run",
                                             up |-> IF k = 1 THEN 0 ELSE n - 1]),
                        !.tracked = IF w.role = "pipeline" THEN @ \cup {n} ELSE @]>>
        /\ UNCHANGED <<sessions, queue, zombies, events, nreq, reqs, ix, nav, rd>>

\* the reading loop gets a line of the last child and finds the flag
\* cleared: it breaks (with the flag set it goes on reading)
RunReadLine ==
    LET w == workers[1]
    IN  /\ w.pc = "read" /\ ~w.is_running
        /\ w.procs[Len(w.procs)].st = "run"
        /\ w.chain[1] = "file"
        /\ workers' = <<[w EXCEPT !.pc = "cleanup"]>>
        /\ UNCHANGED <<sessions, queue, zombies, events, nreq, reqs, ix, nav, rd>>

\* the reading loop reaches the end of the output of the last child
RunReadEnd ==
    LET w == workers[1]
    IN  /\ w.pc = "read"
        /\ w.procs[Len(w.procs)].st # "run"
        /\ workers' = <<[w EXCEPT !.pc = "cleanup"]>>
        /\ UNCHANGED <<sessions, queue, zombies, events, nreq, reqs, ix, nav, rd>>

\* the finally block of PipelineWorker.run and the cleanup of
\* _run_layer_stats: every child of the chain still running is terminated
RunCleanup ==
    LET w == workers[1]
    IN  /\ w.pc = "cleanup"
        /\ workers' = <<[w EXCEPT !.procs = Terminate(@, (w.base + 1)..Len(w.procs)),
                                  !.pc = "begin"]>>
        /\ UNCHANGED <<sessions, queue, zombies, events, nreq, reqs, ix, nav, rd>>

\* a child exits by itself once its input has ended: a file always ends,
\* a predecessor ends when it is no longer running, the inherited standard
\* input only when it is at its end
ChildExit(k) ==
    LET w == workers[1]
    IN  /\ k <= Len(w.procs)
        /\ w.procs[k].st = "run"
        /\ \/ w.procs[k].kind = "file"
           \/ w.procs[k].up = 0 /\ w.stdin = "eof"
           \/ w.procs[k].up # 0 /\ w.procs[w.procs[k].up].st # "run"
        /\ workers' = <<[w EXCEPT !.procs[k].st = "done"]>>
        /\ UNCHANGED <<sessions, queue, zombies, events, nreq, reqs, ix, nav, rd>>

MaxProcs == 4

NextStop ==
    \/ StopCall
    \/ RunBegin
    \/ RunSpawn
    \/ RunReadLine
    \/ RunReadEnd
    \/ RunCleanup
    \/ \E k \in 1..MaxProcs : ChildExit(k)

\* the thread of run is scheduled and every child whose input has ended
\* exits; that a line arrives while a child is running is not assumed
SpecStop ==
    /\ StopInit /\ [][NextStop]_vars
    /\ WF_vars(RunBegin) /\ WF_vars(RunSpawn) /\ WF_vars(RunReadEnd)
    /\ WF_vars(RunCleanup)
    /\ \A k \in 1..MaxProcs : WF_vars(ChildExit(k))

\* C36: after stop() on a running worker its run eventually returns and no
\* child it spawned, before or after the call, is still running.
C36_StopEndsRun ==
    workers[1].stopped
        ~> (workers[1].pc = "returned"
            /\ \A k \in 1..Len(workers[1].procs) : workers[1].procs[k].st # "run")

\* ===================================================================== open
\* open_file, close_file and sync_all with the workers they start, under
\* the scheduling of the program: a thread that was started runs to its
\* end, and the event loop of the main thread handles every posted call.
NextOpen ==
    \/ \E fid \in FileIds, path \in Paths : OpenFile(fid, path)
    \/ \E fid \in FileIds : CloseFile(fid)
    \/ \E fid \in FileIds, layers \in LayerLists : SyncAll(fid, layers, None)
    \/ \E w \in 1..Len(workers) : WorkerFinish(w)
    \/ \E w \in 1..Len(workers) : WorkerFinishStopped(w)
    \/ \E w \in 1..Len(workers) : WorkerExit(w)
    \/ Deliver

\* run() of worker w can come to its end: WorkerFinish(w) or
\* WorkerFinishStopped(w) is enabled
Runnable(w) ==
    /\ workers[w].pc = "running"
    /\ (workers[w].role = "pipeline" /\ workers[w].is_running)
          => ~RunRaises(workers[w].layers)

\* run() of worker w comes to its end
RunEnds(w) ==
    /\ w \in 1..Len(workers)
    /\ workers[w].pc = "running"
    /\ workers' = [workers EXCEPT ![w].pc = AfterEmit(workers[w])]
    /\ WorkerFinish(w) \/ WorkerFinishStopped(w)

\* weak fairness of the worker threads, WF_vars(\E w : RunEnds(w)), with
\* its enabling condition written out
RunFair ==
    \/ []<>(~\E w \in 1..Len(workers) : Runnable(w))
    \/ []<><<\E w \in 1..Len(workers) : RunEnds(w)>>_vars

\* a thread that was started runs to its end, a thread that has emitted
\* ends, and the event loop handles every posted call
SpecOpen ==
    /\ Init /\ [][NextOpen]_vars
    /\ RunFair
    /\ WF_vars(\E w \in 1..Len(workers) : WorkerExit(w))
    /\ WF_vars(Deliver)

\* the file_loaded events emitted for request r
FileLoadedOf(r) ==
    IF r <= nreq THEN SelectSeq(events[r], LAMBDA e : e.type = "file_loaded") ELSE <<>>

\* request r is an open_file that returned true
OpenedTrue(r) ==
    /\ r <= nreq
    /\ reqs[r].op = "open_file"
    /\ Len(events[r]) > 0

\* an open_file or close_file for the same file_id came after request r
Superseded(r) ==
    \E q \in (r + 1)..nreq :
        reqs[q].op \in {"open_file", "close_file"} /\ reqs[q].fid = reqs[r].fid

IsoFileIds == {"f1", "f2"}

IsoPaths == {"c.log"}

IsoLayers == {<<FilterConf("l1", "E")>>}

IsoRequests == 2    \* requests that start workers, of the isolation specification

IsoInit ==
    /\ sessions = [f \in IsoFileIds |->
                      IF f = "f1"
                      THEN [LoadedSession("a.log") EXCEPT
                               !.cache = {[i |-> 0,
                                           row |-> FreshRow(LoadedSession("a.log"), 0)]}]
                      ELSE NoSession]
    /\ workers = <<>>
    /\ queue = <<>>
    /\ zombies = {}
    /\ events = <<>>
    /\ nreq = 0
    /\ reqs = <<>>
    /\ ix = IxIdle
    /\ nav = NoCall
    /\ rd = NoReaders

\* the main thread takes a call posted by a worker of fid
DeliverFor(fid) ==
    /\ Len(queue) > 0
    /\ workers[Head(queue).w].fid = fid
    /\ Deliver

\* a request or a worker completion for fid
ActsOn(fid) ==
    \/ \E path \in IsoPaths : nreq < IsoRequests /\ OpenFile(fid, path)
    \/ nreq < IsoRequests /\ CloseFile(fid)
    \/ \E layers \in IsoLayers : nreq < IsoRequests /\ SyncAll(fid, layers, None)
    \/ nreq < IsoRequests /\ SearchRipgrep(fid, "T")
    \/ ToggleBookmark(fid, 0)
    \/ DeliverFor(fid)

NextIso ==
    \/ \E fid \in IsoFileIds : ActsOn(fid)
    \/ \E w \in 1..Len(workers) : WorkerFinish(w)
    \/ \E w \in 1..Len(workers) : WorkerFinishStopped(w)
    \/ \E w \in 1..Len(workers) : WorkerExit(w)

SpecIso == IsoInit /\ [][NextIso]_vars

\* the tables of the session of f are left as they are
SameTables(f) ==
    /\ sessions'[f].line_offsets = sessions[f].line_offsets
    /\ sessions'[f].visible_indices = sessions[f].visible_indices
    /\ sessions'[f].search_matches = sessions[f].search_matches
    /\ sessions'[f].layers = sessions[f].layers
    /\ sessions'[f].cache = sessions[f].cache

\* C38: a request or a worker completion for one file_id leaves the
\* line_offsets, visible_indices, search_matches, layers and cache of the
\* session of every other file_id unchanged.
C38_SessionsIsolated ==
    [][\A g \in IsoFileIds : ActsOn(g) =>
            \A f \in IsoFileIds \ {g} : SameTables(f)]_vars

\* both sessions are loaded, each with the table of its own file: f2 has
\* the filtered view of a pipeline that finished, f1 its cached row still
C38_Witness ==
    /\ sessions["f1"].registered /\ sessions["f2"].registered
    /\ Len(sessions["f1"].line_offsets) = 5
    /\ Len(sessions["f2"].line_offsets) = 3
    /\ sessions["f1"].visible_indices = None
    /\ sessions["f1"].cache # {}
    /\ sessions["f2"].visible_indices = Some(<<>>)

\* ===================================================================== C39
\* C39: a run started by search_ripgrep on the session's existing layer
\* instances while the previous pipeline worker was still running, with a
\* Range layer among them, installs exactly the start..end window of the
\* lines reaching the Range layer: the retired worker does not disturb the
\* counter of the new run.
C39_RetiredWorkerKeepsCounter ==
    [][(PipelineLanding /\ Landed /\ workers[Head(queue).w].overlap)
       => LET w == workers[Head(queue).w]
          IN  sessions'[w.fid].visible_indices =
                  Some(Windows(SelectSeq(w.layers, LAMBDA l : StageOf(l.type) = "logic"),
                               1, NativeOut(w)))]_vars

\* ===================================================================== C40
\* request r has an event of the type
HasEvent(r, type) == \E i \in 1..Len(events[r]) : events[r][i].type = type

\* C40: after open_file and then sync_all with a processing layer, once the
\* indexing worker and the pipeline worker have both finished (file_loaded
\* and pipeline_finished are out and nothing is pending), visible_indices
\* is the filtered result of the synced layers, whichever worker finished
\* first.
C40_IndexingKeepsPipelineResult ==
    \A r \in 1..(Len(reqs) - 1) :
        LET s == sessions[reqs[r].fid]
        IN  (/\ Len(reqs) = r + 1
             /\ reqs[r].op = "open_file"
             /\ reqs[r + 1].op = "sync_all" /\ reqs[r + 1].fid = reqs[r].fid
             /\ Len(reqs[r + 1].layers) > 0
             /\ s.registered /\ s.gen = r
             /\ Quiet
             /\ HasEvent(r, "file_loaded") /\ HasEvent(r + 1, "pipeline_finished"))
            => s.visible_indices =
                  Some(PipelineRun(s.layer_instances, s.search_config, s.path).visible_indices)

====
